---- MODULE Spec2Model ----
(***************************************************************************)
(* Model of the Polymarket 15-minute trading bot: the window clock         *)
(* (window_manager.py), the group + laggard strategy (strategy.py), the    *)
(* live trader (trader.py) with its price cache (data_feed.py) and the     *)
(* backtester (backtester.py).                                             *)
(*                                                                         *)
(* Prices are probabilities; they are modelled in hundredths (0.75 is 75). *)
(* Times are whole seconds since midnight of day 0.                        *)
(***************************************************************************)
EXTENDS Integers, Sequences, FiniteSets, TLC

VARIABLES
    config,         \* the configuration dict handed to the driver (the config_dict
                    \* before Config is constructed, where the start alone is modelled)
    driver,         \* which program runs: "live", "backtest", "both", or a part
                    \* alone: "signal" (strategy), "clock" (window manager),
                    \* "stream" (price stream), "config" (the start)
    rtds_client,    \* the EnhancedRTDSClient object and the locals of connect()
                    \* (None where the price stream is not modelled step by step)
    trader,         \* the EnhancedLiveTrader object
    latest_prices,  \* EnhancedDataFeedManager.latest_prices
    backtester,     \* the EnhancedBacktester object and the locals of run()
    now,            \* time of the last tick (utcnow of the cycle / replay timestamp;
                    \* stream alone: utcnow of the last emission)
    ticks,          \* number of ticks processed so far (stream alone: of messages
                    \* and mock rounds handled)
    pc,             \* where the driver's main is: "init", "running" or "done"; in
                    \* the cycle step by step the await the task is suspended in
    snapshot,       \* the price snapshot of the last tick (live: the option prices
                    \* built from the cache; backtest: the rows of the timestamp;
                    \* strategy alone: the argument of evaluate_signal; stream
                    \* alone: the last call of get_latest_prices and its result)
    signal          \* strategy alone: the SignalResult of the last call

vars == <<config, driver, rtds_client, trader, latest_prices, backtester, now, ticks, pc, snapshot, signal>>

(***************************************************************************)
(* Bounds of the model                                                     *)
(***************************************************************************)
MaxTicks == 3
MaxWindows == 2
MaxClockMinute == 64
MaxEmissions == 3

(***************************************************************************)
(* Python values                                                           *)
(***************************************************************************)
\* None where a dataclass / dict is expected
None == [none |-> TRUE]
\* None where a window id (a formatted string) is expected
NoneId == <<>>
\* None where a float is expected
NonePrice == -1
\* a plain string, and an f-string with one interpolated number
Str(s) == [text |-> s]
Fmt(s, n) == [text |-> s, arg |-> n]
\* a bare float of a backtest snapshot; live snapshots hold {"UP":..,"DOWN":..}
Float(p) == [value |-> p]
IsDict(v) == "value" \notin DOMAIN v

Max(a, b) == IF a >= b THEN a ELSE b
Min(a, b) == IF a <= b THEN a ELSE b

SeqToSet(s) == {s[i] : i \in 1..Len(s)}

(***************************************************************************)
(* config.py                                                               *)
(***************************************************************************)
DEFAULT_CONFIG ==
    [ reference_assets |-> <<"BTC", "ETH">>,
      tradeable_assets |-> <<"SOL", "XRP">>,
      all_assets |-> <<"BTC", "ETH", "SOL", "XRP">>,
      zone_high_min |-> 75, zone_high_max |-> 100,
      zone_low_min |-> 0, zone_low_max |-> 25,
      laggard_up_entry_min |-> 0, laggard_up_entry_max |-> 50,
      laggard_down_entry_min |-> 50, laggard_down_entry_max |-> 100,
      exit_up_threshold |-> 90, exit_down_threshold |-> 10,
      stop_loss_pct |-> 5,
      window_duration_minutes |-> 15,
      entry_window_max_remaining_seconds |-> 300,
      entry_window_min_remaining_seconds |-> 90,
      max_trades_per_window |-> 1,
      stake_size_usd |-> 1,
      reconnect_delay_seconds |-> 5,
      max_reconnect_attempts |-> 10 ]

\* Config._validate: the assertions, in order
Validate(c) ==
    /\ 0 < c.exit_up_threshold /\ c.exit_up_threshold <= 100
    /\ 0 <= c.exit_down_threshold /\ c.exit_down_threshold < 100
    /\ c.entry_window_max_remaining_seconds > c.entry_window_min_remaining_seconds
    /\ c.zone_high_min < c.zone_high_max
    /\ c.zone_low_min < c.zone_low_max
    /\ Len(c.reference_assets) >= 2
    /\ Len(c.tradeable_assets) >= 1

\* Config.__init__: DEFAULT_CONFIG.copy(), update(config_dict), _validate()
\* (overrides is a record with a subset of the keys; a failed assertion raises)
ConfigInit(overrides) ==
    [k \in DOMAIN DEFAULT_CONFIG |->
        IF k \in DOMAIN overrides THEN overrides[k] ELSE DEFAULT_CONFIG[k]]

(***************************************************************************)
(* window_manager.py                                                       *)
(***************************************************************************)
HourStart(t) == (t \div 3600) * 3600
MinuteOf(t) == (t % 3600) \div 60

\* WindowManager.get_current_window: <<window_start, window_end>>
get_current_window(wdm, t) ==
    LET minutes == (MinuteOf(t) \div wdm) * wdm
        window_start == HourStart(t) + minutes * 60
    IN <<window_start, window_start + wdm * 60>>

\* WindowManager.get_time_remaining
get_time_remaining(wdm, t) ==
    Max(0, get_current_window(wdm, t)[2] - t)

\* is_entry_eligible with the bounds excluded
is_entry_eligible_exclusive(wdm, t, max_remaining, min_remaining) ==
    LET remaining == get_time_remaining(wdm, t)
    IN min_remaining < remaining /\ remaining < max_remaining

\* WindowManager.is_entry_eligible
is_entry_eligible(wdm, t, max_remaining, min_remaining) ==
    LET remaining == get_time_remaining(wdm, t)
    IN min_remaining <= remaining /\ remaining <= max_remaining

\* strftime("%Y%m%d_%H%M"): the date, the hour and the minute of a datetime
strftime_YmdHM(t) == <<t \div 86400, (t % 86400) \div 3600, MinuteOf(t)>>

\* WindowManager.get_window_id
get_window_id(wdm, t) == strftime_YmdHM(get_current_window(wdm, t)[1])

(***************************************************************************)
(* strategy.py                                                             *)
(***************************************************************************)
NoSignal(reason) ==
    [ signal |-> "None", asset |-> "None", group_config |-> "None",
      group_assets |-> <<>>, group_prices |-> <<>>, laggard_price |-> NonePrice,
      reason |-> reason ]

\* _in_zone with the bounds excluded
in_zone_exclusive(value, zone) == zone[1] < value /\ value < zone[2]

\* EnhancedPolymarketStrategy._in_zone; a zone is <<min, max>>
in_zone(value, zone) == zone[1] <= value /\ value <= zone[2]

\* EnhancedPolymarketStrategy._all_in_zone
all_in_zone(prices, zone) == \A a \in DOMAIN prices : in_zone(prices[a], zone)

zone_high(c) == <<c.zone_high_min, c.zone_high_max>>
zone_low(c) == <<c.zone_low_min, c.zone_low_max>>
laggard_up(c) == <<c.laggard_up_entry_min, c.laggard_up_entry_max>>
laggard_down(c) == <<c.laggard_down_entry_min, c.laggard_down_entry_max>>

\* EnhancedPolymarketStrategy._evaluate_group
evaluate_group(c, prices, group_assets, laggard_asset, group_name) ==
    LET group_prices == [a \in SeqToSet(group_assets) |-> prices[a]]
        laggard_price == prices[laggard_asset]
    IN IF all_in_zone(group_prices, zone_high(c)) /\ in_zone(laggard_price, laggard_up(c))
       THEN [ signal |-> "UP", asset |-> laggard_asset, group_config |-> group_name,
              group_assets |-> group_assets, group_prices |-> group_prices,
              laggard_price |-> laggard_price,
              reason |-> [text |-> "Group HIGH ({}), Laggard LOW", zone |-> zone_high(c)] ]
       ELSE IF all_in_zone(group_prices, zone_low(c)) /\ in_zone(laggard_price, laggard_down(c))
       THEN [ signal |-> "DOWN", asset |-> laggard_asset, group_config |-> group_name,
              group_assets |-> group_assets, group_prices |-> group_prices,
              laggard_price |-> laggard_price,
              reason |-> [text |-> "Group LOW ({}), Laggard HIGH", zone |-> zone_low(c)] ]
       ELSE NoSignal([text |-> "{}: No signal", name |-> group_name])

\* evaluate_signal: the assets it requires
required_assets(c) == SeqToSet(c.reference_assets) \cup SeqToSet(c.tradeable_assets)

\* evaluate_signal: the UP price of every required asset
up_prices(c, prices) ==
    [a \in required_assets(c) |->
        IF IsDict(prices[a])
        THEN (IF "UP" \in DOMAIN prices[a] THEN prices[a].UP ELSE 50)
        ELSE prices[a].value]

\* evaluate_signal: the group and the laggard of G1 and of G2
group_assets_of(c, g) ==
    c.reference_assets \o <<c.tradeable_assets[IF g = "G1" THEN 1 ELSE 2]>>
laggard_of(c, g) == c.tradeable_assets[IF g = "G1" THEN 2 ELSE 1]

\* evaluate_signal with an absent asset read at the neutral price instead of
\* the early return
evaluate_signal_default_missing(c, prices) ==
    LET filled == [a \in required_assets(c) |->
                      IF a \in DOMAIN prices THEN prices[a] ELSE Float(50)]
        g1_result == evaluate_group(c, up_prices(c, filled),
                        group_assets_of(c, "G1"), laggard_of(c, "G1"), "G1")
        g2_result == evaluate_group(c, up_prices(c, filled),
                        group_assets_of(c, "G2"), laggard_of(c, "G2"), "G2")
    IN IF g1_result.signal # "None" THEN g1_result
       ELSE IF g2_result.signal # "None" THEN g2_result
       ELSE NoSignal(Str("No valid signal condition"))

\* EnhancedPolymarketStrategy.evaluate_signal with G2 tried before G1
evaluate_signal_g2_first(c, prices) ==
    LET g1_result == evaluate_group(c, up_prices(c, prices),
                        group_assets_of(c, "G1"), laggard_of(c, "G1"), "G1")
        g2_result == evaluate_group(c, up_prices(c, prices),
                        group_assets_of(c, "G2"), laggard_of(c, "G2"), "G2")
    IN IF ~(required_assets(c) \subseteq DOMAIN prices)
       THEN NoSignal(Str("Missing prices"))
       ELSE IF g2_result.signal # "None" THEN g2_result
       ELSE IF g1_result.signal # "None" THEN g1_result
       ELSE NoSignal(Str("No valid signal condition"))

\* EnhancedPolymarketStrategy.evaluate_signal
evaluate_signal(c, prices) ==
    LET g1_result == evaluate_group(c, up_prices(c, prices),
                        group_assets_of(c, "G1"), laggard_of(c, "G1"), "G1")
        g2_result == evaluate_group(c, up_prices(c, prices),
                        group_assets_of(c, "G2"), laggard_of(c, "G2"), "G2")
    IN IF ~(required_assets(c) \subseteq DOMAIN prices)
       THEN NoSignal(Str("Missing prices"))
       ELSE IF g1_result.signal # "None" THEN g1_result
       ELSE IF g2_result.signal # "None" THEN g2_result
       ELSE NoSignal(Str("No valid signal condition"))

\* check_exit with a price on the threshold not exiting
check_exit_strict(c, side, current_price) ==
    IF side = "UP" /\ current_price > c.exit_up_threshold
    THEN <<TRUE, Fmt("TARGET_HIT (>= {})", c.exit_up_threshold)>>
    ELSE IF side = "DOWN" /\ current_price < c.exit_down_threshold
    THEN <<TRUE, Fmt("TARGET_HIT (<= {})", c.exit_down_threshold)>>
    ELSE <<FALSE, Str("HOLDING")>>

\* EnhancedPolymarketStrategy.check_exit: <<should_exit, reason>>
check_exit(c, side, current_price) ==
    IF side = "UP" /\ current_price >= c.exit_up_threshold
    THEN <<TRUE, Fmt("TARGET_HIT (>= {})", c.exit_up_threshold)>>
    ELSE IF side = "DOWN" /\ current_price <= c.exit_down_threshold
    THEN <<TRUE, Fmt("TARGET_HIT (<= {})", c.exit_down_threshold)>>
    ELSE <<FALSE, Str("HOLDING")>>

(***************************************************************************)
(* utils.py                                                                *)
(***************************************************************************)
\* calculate_pnl
calculate_pnl(entry_price, exit_price, side, stake_size) ==
    IF side = "UP" THEN (exit_price - entry_price) * stake_size
    ELSE IF side = "DOWN" THEN (entry_price - exit_price) * stake_size
    ELSE 0

(***************************************************************************)
(* data_feed.py                                                            *)
(***************************************************************************)
\* PriceData (the timestamp is not used by the trader)
PriceData(asset, price, source) == [asset |-> asset, price |-> price, source |-> source]

\* EnhancedDataFeedManager._on_price_update
on_price_update(cache, price_data) ==
    [a \in DOMAIN cache \cup {price_data.asset} |->
        IF a = price_data.asset THEN price_data ELSE cache[a]]

\* get_latest_prices leaving out the assets the cache has no entry for
get_latest_prices_cached_only(cache, assets) ==
    [a \in SeqToSet(assets) \cap DOMAIN cache |-> cache[a]]

\* EnhancedDataFeedManager.get_latest_prices
get_latest_prices(cache, assets) ==
    [a \in SeqToSet(assets) |->
        IF a \in DOMAIN cache THEN cache[a] ELSE PriceData(a, 50, "default")]

\* EnhancedDataFeedManager.get_market_info(asset).market_id
market_id_of(asset) == [text |-> "mock_{}_15min", name |-> asset]

(***************************************************************************)
(* trader.py                                                               *)
(***************************************************************************)
\* EnhancedLiveTrader.__init__; trade_log is the CSV the TradeLogger appends
\* to, opened is the history of the Position objects constructed; data_feed
\* is "None" until initialize() builds the feed manager and starts its
\* stream ("streaming"), and "shutdown" once the feed was shut down
TraderInit ==
    [ current_position |-> None, current_window_id |-> NoneId,
      trades_this_window |-> 0, running |-> FALSE,
      total_trades |-> 0, total_pnl |-> 0,
      trade_log |-> <<>>, opened |-> <<>>, data_feed |-> "None" ]

\* _calculate_stop_loss without the clamp to the price range
calculate_stop_loss_unclamped(c, side, entry_price) ==
    IF side = "UP"
    THEN entry_price - c.stop_loss_pct
    ELSE entry_price + c.stop_loss_pct

\* EnhancedLiveTrader._calculate_stop_loss
calculate_stop_loss(c, side, entry_price) ==
    IF side = "UP"
    THEN Max(0, entry_price - c.stop_loss_pct)
    ELSE Min(100, entry_price + c.stop_loss_pct)

\* _exit_position with a zero pnl counted as a win
exit_position_win_on_zero(s, exit_time, exit_price, reason) ==
    IF s.current_position = None THEN s
    ELSE LET p == s.current_position
             pnl_pct == IF p.side = "UP" THEN exit_price - p.entry_price
                        ELSE p.entry_price - exit_price
             pnl_usd == pnl_pct * p.stake_size
             trade_data ==
                [ timestamp_entry |-> p.entry_time, timestamp_exit |-> exit_time,
                  window_id |-> p.window_id, asset |-> p.asset, side |-> p.side,
                  group_config |-> p.group_config, group_assets |-> p.group_assets,
                  group_prices_entry |-> p.group_prices,
                  entry_price |-> p.entry_price, exit_price |-> exit_price,
                  exit_reason |-> reason, pnl_pct |-> pnl_pct, pnl_usd |-> pnl_usd,
                  stake_size |-> p.stake_size,
                  outcome |-> IF pnl_usd >= 0 THEN "WIN" ELSE "LOSS",
                  market_id |-> p.market_id,
                  cumulative_pnl |-> s.total_pnl + pnl_usd,
                  trade_number |-> s.total_trades + 1 ]
         IN [s EXCEPT !.total_trades = @ + 1,
                      !.total_pnl = @ + pnl_usd,
                      !.trade_log = Append(@, trade_data),
                      !.current_position = None]

\* _exit_position without its early return: a call with no position open
\* counts a trade
exit_position_unguarded(s, exit_time, exit_price, reason) ==
    IF s.current_position = None THEN [s EXCEPT !.total_trades = @ + 1]
    ELSE [s EXCEPT !.total_trades = @ + 1,
                   !.current_position = None]

\* _exit_position without the clearing of current_position at its end
exit_position_keeps_position(s, exit_time, exit_price, reason) ==
    IF s.current_position = None THEN s
    ELSE LET p == s.current_position
             pnl_pct == IF p.side = "UP" THEN exit_price - p.entry_price
                        ELSE p.entry_price - exit_price
             pnl_usd == pnl_pct * p.stake_size
             trade_data ==
                [ timestamp_entry |-> p.entry_time, timestamp_exit |-> exit_time,
                  window_id |-> p.window_id, asset |-> p.asset, side |-> p.side,
                  group_config |-> p.group_config, group_assets |-> p.group_assets,
                  group_prices_entry |-> p.group_prices,
                  entry_price |-> p.entry_price, exit_price |-> exit_price,
                  exit_reason |-> reason, pnl_pct |-> pnl_pct, pnl_usd |-> pnl_usd,
                  stake_size |-> p.stake_size,
                  outcome |-> IF pnl_usd > 0 THEN "WIN" ELSE "LOSS",
                  market_id |-> p.market_id,
                  cumulative_pnl |-> s.total_pnl + pnl_usd,
                  trade_number |-> s.total_trades + 1 ]
         IN [s EXCEPT !.total_trades = @ + 1,
                      !.total_pnl = @ + pnl_usd,
                      !.trade_log = Append(@, trade_data)]

\* EnhancedLiveTrader._exit_position
exit_position(s, exit_time, exit_price, reason) ==
    IF s.current_position = None THEN s
    ELSE LET p == s.current_position
             pnl_pct == IF p.side = "UP" THEN exit_price - p.entry_price
                        ELSE p.entry_price - exit_price
             pnl_usd == pnl_pct * p.stake_size
             trade_data ==
                [ timestamp_entry |-> p.entry_time, timestamp_exit |-> exit_time,
                  window_id |-> p.window_id, asset |-> p.asset, side |-> p.side,
                  group_config |-> p.group_config, group_assets |-> p.group_assets,
                  group_prices_entry |-> p.group_prices,
                  entry_price |-> p.entry_price, exit_price |-> exit_price,
                  exit_reason |-> reason, pnl_pct |-> pnl_pct, pnl_usd |-> pnl_usd,
                  stake_size |-> p.stake_size,
                  outcome |-> IF pnl_usd > 0 THEN "WIN" ELSE "LOSS",
                  market_id |-> p.market_id,
                  cumulative_pnl |-> s.total_pnl + pnl_usd,
                  trade_number |-> s.total_trades + 1 ]
         IN [s EXCEPT !.total_trades = @ + 1,
                      !.total_pnl = @ + pnl_usd,
                      !.trade_log = Append(@, trade_data),
                      !.current_position = None]

\* _settle_position reading the cache itself, without the default entry of
\* get_latest_prices: its simplified settlement price is used for an asset
\* the cache has no entry for
settle_position_no_default(s, cache, reason, t) ==
    IF s.current_position = None THEN s
    ELSE LET asset == s.current_position.asset
             final_price == IF asset \in DOMAIN cache
                            THEN cache[asset].price
                            ELSE (IF s.current_position.side = "UP" THEN 100 ELSE 0)
         IN exit_position(s, t, final_price, reason)

\* _settle_position with the simplified settlement price in place of the cache
settle_position_simplified(s, cache, reason, t) ==
    IF s.current_position = None THEN s
    ELSE exit_position(s, t, IF s.current_position.side = "UP" THEN 100 ELSE 0, reason)

\* EnhancedLiveTrader._settle_position; t is the datetime.utcnow() it reads, which
\* falls in the second of the cycle (or of the shutdown) that calls it
settle_position(s, cache, reason, t) ==
    IF s.current_position = None THEN s
    ELSE LET asset == s.current_position.asset
             price_data == get_latest_prices(cache, <<asset>>)
             final_price == IF asset \in DOMAIN price_data
                            THEN price_data[asset].price
                            ELSE (IF s.current_position.side = "UP" THEN 100 ELSE 0)
         IN exit_position(s, t, final_price, reason)

\* _handle_new_window without the settlement of the open position
handle_new_window_no_settle(s, cache, window_id, t) ==
    [s EXCEPT !.current_window_id = window_id, !.trades_this_window = 0]

\* EnhancedLiveTrader._handle_new_window
handle_new_window(s, cache, window_id, t) ==
    LET s1 == IF s.current_position # None
              THEN settle_position(s, cache, Str("WINDOW_EXPIRY"), t)
              ELSE s
    IN [s1 EXCEPT !.current_window_id = window_id, !.trades_this_window = 0]

\* _enter_position without the increment of trades_this_window
enter_position_uncounted(s, c, sig, entry_time) ==
    LET position ==
            [ window_id |-> s.current_window_id, asset |-> sig.asset,
              side |-> sig.signal, entry_time |-> entry_time,
              entry_price |-> sig.laggard_price,
              group_config |-> sig.group_config, group_assets |-> sig.group_assets,
              group_prices |-> sig.group_prices,
              stake_size |-> c.stake_size_usd,
              market_id |-> market_id_of(sig.asset),
              stop_loss_price |-> calculate_stop_loss(c, sig.signal, sig.laggard_price) ]
    IN [s EXCEPT !.current_position = position,
                 !.opened = Append(@, position)]

\* EnhancedLiveTrader._enter_position
enter_position(s, c, sig, entry_time) ==
    LET position ==
            [ window_id |-> s.current_window_id, asset |-> sig.asset,
              side |-> sig.signal, entry_time |-> entry_time,
              entry_price |-> sig.laggard_price,
              group_config |-> sig.group_config, group_assets |-> sig.group_assets,
              group_prices |-> sig.group_prices,
              stake_size |-> c.stake_size_usd,
              market_id |-> market_id_of(sig.asset),
              stop_loss_price |-> calculate_stop_loss(c, sig.signal, sig.laggard_price) ]
    IN [s EXCEPT !.current_position = position,
                 !.opened = Append(@, position),
                 !.trades_this_window = @ + 1]

\* _check_entry without the time eligibility check
check_entry_any_time(s, c, current_time, prices) ==
    IF s.trades_this_window >= c.max_trades_per_window THEN s
    ELSE LET sig == evaluate_signal(c, prices)
         IN IF sig.signal # "None" THEN enter_position(s, c, sig, current_time) ELSE s

\* EnhancedLiveTrader._check_entry
check_entry(s, c, current_time, prices) ==
    IF s.trades_this_window >= c.max_trades_per_window THEN s
    ELSE IF ~is_entry_eligible(c.window_duration_minutes, current_time,
                               c.entry_window_max_remaining_seconds,
                               c.entry_window_min_remaining_seconds) THEN s
    ELSE LET sig == evaluate_signal(c, prices)
         IN IF sig.signal # "None" THEN enter_position(s, c, sig, current_time) ELSE s

\* _check_stop_loss comparing with the entry price of the position
check_stop_loss_at_entry(s, current_price) ==
    IF s.current_position = None THEN FALSE
    ELSE IF s.current_position.side = "UP"
         THEN current_price <= s.current_position.entry_price
         ELSE current_price >= s.current_position.entry_price

\* EnhancedLiveTrader._check_stop_loss
check_stop_loss(s, current_price) ==
    IF s.current_position = None THEN FALSE
    ELSE IF s.current_position.side = "UP"
         THEN current_price <= s.current_position.stop_loss_price
         ELSE current_price >= s.current_position.stop_loss_price

\* the price _check_exit extracts from the snapshot entry of the position's asset
exit_quote(s, price_data) ==
    IF IsDict(price_data)
    THEN (IF s.current_position.side = "UP" THEN price_data.UP ELSE price_data.DOWN)
    ELSE price_data.value

\* _check_exit with the strategy exit checked before the stop loss
trader_check_exit_target_first(s, c, current_time, prices) ==
    IF s.current_position = None THEN s
    ELSE IF s.current_position.asset \notin DOMAIN prices THEN s
    ELSE LET current_price == exit_quote(s, prices[s.current_position.asset])
             exit == check_exit(c, s.current_position.side, current_price)
         IN IF exit[1]
            THEN exit_position(s, current_time, current_price, exit[2])
            ELSE IF check_stop_loss(s, current_price)
            THEN exit_position(s, current_time, current_price, Str("STOP_LOSS"))
            ELSE s

\* EnhancedLiveTrader._check_exit
trader_check_exit(s, c, current_time, prices) ==
    IF s.current_position = None THEN s
    ELSE IF s.current_position.asset \notin DOMAIN prices THEN s
    ELSE LET current_price == exit_quote(s, prices[s.current_position.asset])
             exit == check_exit(c, s.current_position.side, current_price)
         IN IF check_stop_loss(s, current_price)
            THEN exit_position(s, current_time, current_price, Str("STOP_LOSS"))
            ELSE IF exit[1]
            THEN exit_position(s, current_time, current_price, exit[2])
            ELSE s

\* the option-price snapshot _trading_cycle builds from the cache
option_prices(price_data) ==
    [a \in DOMAIN price_data |->
        [UP |-> price_data[a].price, DOWN |-> 100 - price_data[a].price]]

\* _trading_cycle with the entry check made whether or not a position is open
trading_cycle_always_entry(s, cache, c, current_time) ==
    LET window_id == get_window_id(c.window_duration_minutes, current_time)
        s1 == IF window_id # s.current_window_id
              THEN handle_new_window(s, cache, window_id, current_time)
              ELSE s
        prices == option_prices(get_latest_prices(cache, c.all_assets))
    IN check_entry(s1, c, current_time, prices)

\* EnhancedLiveTrader._trading_cycle, with current_time = datetime.utcnow()
trading_cycle(s, cache, c, current_time) ==
    LET window_id == get_window_id(c.window_duration_minutes, current_time)
        s1 == IF window_id # s.current_window_id
              THEN handle_new_window(s, cache, window_id, current_time)
              ELSE s
        prices == option_prices(get_latest_prices(cache, c.all_assets))
    IN IF s1.current_position = None
       THEN check_entry(s1, c, current_time, prices)
       ELSE trader_check_exit(s1, c, current_time, prices)

\* shutdown without the settlement of the open position
shutdown_no_settle(s, cache, t) ==
    LET s1 == [s EXCEPT !.running = FALSE]
    IN IF s1.data_feed # "None" THEN [s1 EXCEPT !.data_feed = "shutdown"] ELSE s1

\* EnhancedLiveTrader.shutdown: the flag, the settlement, then the feed
shutdown(s, cache, t) ==
    LET s1 == [s EXCEPT !.running = FALSE]
        s2 == IF s1.current_position # None
              THEN settle_position(s1, cache, Str("SHUTDOWN"), t)
              ELSE s1
    IN IF s2.data_feed # "None" THEN [s2 EXCEPT !.data_feed = "shutdown"] ELSE s2

(***************************************************************************)
(* backtester.py                                                           *)
(***************************************************************************)
\* EnhancedBacktester.__init__, with current_window_id the local of run();
\* opened is the history of the position dicts constructed
BacktesterInit ==
    [ trades |-> <<>>, equity_curve |-> <<>>, current_position |-> None,
      trades_this_window |-> 0, trade_counter |-> 0,
      current_window_id |-> NoneId, opened |-> <<>> ]

\* _close_position with the trade id taken before the counter is incremented
close_position_stale_id(b, exit_time, exit_price, reason) ==
    IF b.current_position = None THEN b
    ELSE LET p == b.current_position
             pnl_pct == IF p.side = "UP" THEN exit_price - p.entry_price
                        ELSE p.entry_price - exit_price
             pnl_usd == pnl_pct * p.stake_size
             trade ==
                [ trade_id |-> b.trade_counter,
                  window_id |-> p.window_id, asset |-> p.asset, side |-> p.side,
                  group_config |-> p.group_config, group_assets |-> p.group_assets,
                  entry_time |-> p.entry_time, entry_price |-> p.entry_price,
                  group_prices_entry |-> p.group_prices,
                  exit_time |-> exit_time, exit_price |-> exit_price,
                  exit_reason |-> reason, pnl_pct |-> pnl_pct, pnl_usd |-> pnl_usd,
                  stake_size |-> p.stake_size,
                  outcome |-> IF pnl_usd > 0 THEN "WIN" ELSE "LOSS" ]
         IN [b EXCEPT !.trade_counter = @ + 1,
                      !.trades = Append(@, trade),
                      !.equity_curve = Append(@, pnl_usd),
                      !.current_position = None]

\* EnhancedBacktester._close_position
close_position(b, exit_time, exit_price, reason) ==
    IF b.current_position = None THEN b
    ELSE LET p == b.current_position
             pnl_pct == IF p.side = "UP" THEN exit_price - p.entry_price
                        ELSE p.entry_price - exit_price
             pnl_usd == pnl_pct * p.stake_size
             trade ==
                [ trade_id |-> b.trade_counter + 1,
                  window_id |-> p.window_id, asset |-> p.asset, side |-> p.side,
                  group_config |-> p.group_config, group_assets |-> p.group_assets,
                  entry_time |-> p.entry_time, entry_price |-> p.entry_price,
                  group_prices_entry |-> p.group_prices,
                  exit_time |-> exit_time, exit_price |-> exit_price,
                  exit_reason |-> reason, pnl_pct |-> pnl_pct, pnl_usd |-> pnl_usd,
                  stake_size |-> p.stake_size,
                  outcome |-> IF pnl_usd > 0 THEN "WIN" ELSE "LOSS" ]
         IN [b EXCEPT !.trade_counter = @ + 1,
                      !.trades = Append(@, trade),
                      !.equity_curve = Append(@, pnl_usd),
                      !.current_position = None]

\* EnhancedBacktester._settle_position
bt_settle_position(b, timestamp, prices, reason) ==
    IF b.current_position = None THEN b
    ELSE LET asset == b.current_position.asset
             settlement_price == IF asset \in DOMAIN prices THEN prices[asset].value ELSE 50
         IN close_position(b, timestamp, settlement_price, reason)

\* EnhancedBacktester._check_entry
bt_check_entry(b, c, timestamp, prices) ==
    IF b.trades_this_window >= c.max_trades_per_window THEN b
    ELSE IF ~is_entry_eligible(c.window_duration_minutes, timestamp,
                               c.entry_window_max_remaining_seconds,
                               c.entry_window_min_remaining_seconds) THEN b
    ELSE LET sig == evaluate_signal(c, prices)
             position ==
                [ window_id |-> get_window_id(c.window_duration_minutes, timestamp),
                  asset |-> sig.asset, side |-> sig.signal,
                  group_config |-> sig.group_config, group_assets |-> sig.group_assets,
                  entry_time |-> timestamp, entry_price |-> sig.laggard_price,
                  group_prices |-> sig.group_prices,
                  stake_size |-> c.stake_size_usd ]
         IN IF sig.signal # "None"
            THEN [b EXCEPT !.current_position = position,
                           !.opened = Append(@, position),
                           !.trades_this_window = @ + 1]
            ELSE b

\* EnhancedBacktester._check_exit
bt_check_exit(b, c, timestamp, prices) ==
    IF b.current_position = None THEN b
    ELSE IF b.current_position.asset \notin DOMAIN prices THEN b
    ELSE LET current_price == prices[b.current_position.asset].value
             exit == check_exit(c, b.current_position.side, current_price)
         IN IF exit[1] THEN close_position(b, timestamp, current_price, exit[2]) ELSE b

\* the body of the loop with the test for missing assets after the window check
run_timestamp_window_first(b, c, ts, prices) ==
    LET window_id == get_window_id(c.window_duration_minutes, ts)
        b1 == IF window_id # b.current_window_id
              THEN [ (IF b.current_position # None
                      THEN bt_settle_position(b, ts, prices, Str("WINDOW_EXPIRY"))
                      ELSE b)
                     EXCEPT !.current_window_id = window_id, !.trades_this_window = 0 ]
              ELSE b
    IN IF ~(SeqToSet(c.all_assets) \subseteq DOMAIN prices) THEN b1
       ELSE IF b1.current_position = None
       THEN bt_check_entry(b1, c, ts, prices)
       ELSE bt_check_exit(b1, c, ts, prices)

\* EnhancedBacktester.run: the body of the loop, for the rows of timestamp ts
run_timestamp(b, c, ts, prices) ==
    LET window_id == get_window_id(c.window_duration_minutes, ts)
        b1 == IF window_id # b.current_window_id
              THEN [ (IF b.current_position # None
                      THEN bt_settle_position(b, ts, prices, Str("WINDOW_EXPIRY"))
                      ELSE b)
                     EXCEPT !.current_window_id = window_id, !.trades_this_window = 0 ]
              ELSE b
    IN IF ~(SeqToSet(c.all_assets) \subseteq DOMAIN prices) THEN b
       ELSE IF b1.current_position = None
       THEN bt_check_entry(b1, c, ts, prices)
       ELSE bt_check_exit(b1, c, ts, prices)

\* run without the final settlement after the loop
run_final_no_settle(b, final_ts, final_prices) == b

\* EnhancedBacktester.run: the final settlement after the loop
run_final(b, final_ts, final_prices) ==
    IF b.current_position # None
    THEN bt_settle_position(b, final_ts, final_prices, Str("BACKTEST_END"))
    ELSE b

(***************************************************************************)
(* Inputs of the model                                                     *)
(***************************************************************************)
Assets == SeqToSet(DEFAULT_CONFIG.all_assets)

\* config dicts handed to Config(config_dict=...); Config() raises on those
\* that fail _validate, so a driver only ever runs with one that passes.
\* The drivers run with the default, with two trades per window (and a stake
\* of 2 USD and a stop loss wide enough to reach the ends of the price range),
\* and with targets on the losing side of the entry zones; the last two widen
\* the entry window so that every tick offset below is eligible.
DriverOverrides ==
    { [stake_size_usd |-> 1],
      [max_trades_per_window |-> 2, stake_size_usd |-> 2, stop_loss_pct |-> 20,
       entry_window_max_remaining_seconds |-> 301,
       entry_window_min_remaining_seconds |-> 89],
      [exit_up_threshold |-> 10, exit_down_threshold |-> 90,
       entry_window_max_remaining_seconds |-> 301,
       entry_window_min_remaining_seconds |-> 89],
      [zone_high_min |-> 100] }

\* the strategy alone also runs with zones that overlap
SignalOverrides ==
    { [stake_size_usd |-> 1],
      [zone_low_max |-> 90, laggard_up_entry_max |-> 90],
      [zone_high_min |-> 20, laggard_down_entry_min |-> 20],
      [zone_low_min |-> 25] }

ValidConfigs(overrides) == {c \in {ConfigInit(o) : o \in overrides} : Validate(c)}

\* prices delivered by the feed and found in the historical data
TickPrices == {10, 50, 90}

\* seconds into a window at which a tick may fall: the second before the
\* default entry window opens (301 s remain), its first second (300 s remain)
\* and the second after it closes (89 s remain)
TickOffsets == {599, 600, 811}

TickTimes ==
    { w * DEFAULT_CONFIG.window_duration_minutes * 60 + o :
        w \in 0..(MaxWindows - 1), o \in TickOffsets }

\* the rows of one timestamp of the historical data, as dict(zip(asset, price)):
\* every asset present (the group of G1 at one price, the laggard of G1 at
\* any), or no row for the laggard
CompleteRows ==
    { [a \in Assets |-> Float(IF a = DEFAULT_CONFIG.tradeable_assets[2] THEN x ELSE g)] :
        g \in {10, 90}, x \in TickPrices }

IncompleteRows ==
    { [a \in Assets \ {DEFAULT_CONFIG.tradeable_assets[2]} |-> Float(90)] }

Rows == CompleteRows \cup IncompleteRows

\* what the price stream task delivers while the trading loop sleeps: a
\* PriceData per subscribed market, or nothing when the stream is down
Rounds ==
    { [a \in DOMAIN r |-> PriceData(a, r[a].value, "feed")] : r \in Rows }
    \cup { [a \in {} |-> None] }

\* prices on and next to the zone bounds, for the strategy alone
SignalPrices == {0, 25, 26, 50, 51, 74, 75, 100}

\* sides and prices on and next to the exit thresholds, for check_exit alone
ExitSides == {"UP", "DOWN"}
ExitPrices == {9, 10, 11, 50, 89, 90, 91}

SignalSnapshots ==
    UNION { [A -> {Float(p) : p \in SignalPrices}] : A \in SUBSET Assets }
    \cup [Assets -> {[UP |-> p, DOWN |-> 100 - p] : p \in SignalPrices}]

(***************************************************************************)
(* The drivers: main_live.py and main_backtest.py                          *)
(***************************************************************************)
Init ==
    /\ config \in ValidConfigs(DriverOverrides)
    /\ driver \in {"live", "backtest"}
    /\ trader = TraderInit
    /\ rtds_client = None
    /\ latest_prices = [a \in {} |-> None]
    /\ backtester = BacktesterInit
    /\ now = 0
    /\ ticks = 0
    /\ pc = "init"
    /\ snapshot = [a \in {} |-> None]
    /\ signal = NoSignal(Str(""))

\* main_live.main: trader.initialize() and the start of trader.run()
LiveRun ==
    /\ driver = "live" /\ pc = "init"
    /\ trader' = [trader EXCEPT !.running = TRUE, !.data_feed = "streaming"]
    /\ pc' = "running"
    /\ UNCHANGED <<config, driver, rtds_client, latest_prices, backtester, now, ticks, snapshot, signal>>

\* EnhancedRTDSClient._mock_price_stream: one round of callbacks into the cache
RECURSIVE deliver(_, _, _)
deliver(cache, round, todo) ==
    IF todo = {} THEN cache
    ELSE LET a == CHOOSE x \in todo : TRUE
         IN deliver(on_price_update(cache, round[a]), round, todo \ {a})

\* one iteration of the loop of EnhancedLiveTrader.run: the sleep, during which
\* the price stream task delivers, then _trading_cycle at utcnow() = t
LiveTick(t, round) ==
    /\ driver = "live" /\ pc = "running" /\ trader.running
    /\ ticks < MaxTicks /\ (ticks = 0 \/ t > now)
    /\ latest_prices' = deliver(latest_prices, round, DOMAIN round)
    /\ trader' = trading_cycle(trader, latest_prices', config, t)
    /\ snapshot' = option_prices(get_latest_prices(latest_prices', config.all_assets))
    /\ now' = t
    /\ ticks' = ticks + 1
    /\ UNCHANGED <<config, driver, rtds_client, backtester, pc, signal>>

\* main_live.main: the finally clause, reached from the trading loop or, when
\* initialize() raised, without the loop having started
LiveShutdown ==
    /\ driver = "live" /\ pc \in {"init", "running"}
    /\ trader' = shutdown(trader, latest_prices, now)
    /\ pc' = "done"
    /\ UNCHANGED <<config, driver, rtds_client, latest_prices, backtester, now, ticks, snapshot, signal>>

\* EnhancedBacktester.run on data with no row in the date range
BacktestNoData ==
    /\ driver = "backtest" /\ pc = "init"
    /\ pc' = "done"
    /\ UNCHANGED <<config, driver, rtds_client, trader, latest_prices, backtester, now, ticks, snapshot, signal>>

\* EnhancedBacktester.run: one iteration of the loop over the sorted timestamps
BacktestRow(t, prices) ==
    /\ driver = "backtest" /\ pc \in {"init", "running"}
    /\ ticks < MaxTicks /\ (pc = "init" \/ t > now)
    /\ backtester' = run_timestamp(backtester, config, t, prices)
    /\ snapshot' = prices
    /\ now' = t
    /\ ticks' = ticks + 1
    /\ pc' = "running"
    /\ UNCHANGED <<config, driver, rtds_client, trader, latest_prices, signal>>

\* EnhancedBacktester.run: the last iteration and the final settlement
BacktestFinalRow(t, prices) ==
    /\ driver = "backtest" /\ pc \in {"init", "running"}
    /\ ticks < MaxTicks /\ (pc = "init" \/ t > now)
    /\ backtester' = run_final(run_timestamp(backtester, config, t, prices), t, prices)
    /\ snapshot' = prices
    /\ now' = t
    /\ ticks' = ticks + 1
    /\ pc' = "done"
    /\ UNCHANGED <<config, driver, rtds_client, trader, latest_prices, signal>>

Next ==
    \/ LiveRun
    \/ \E t \in TickTimes, round \in Rounds : LiveTick(t, round)
    \/ LiveShutdown
    \/ BacktestNoData
    \/ \E t \in TickTimes, prices \in Rows : BacktestRow(t, prices)
    \/ \E t \in TickTimes, prices \in Rows : BacktestFinalRow(t, prices)

Spec == Init /\ [][Next]_vars

(***************************************************************************)
(* The strategy alone, on every snapshot                                   *)
(***************************************************************************)
SignalInit ==
    /\ config \in ValidConfigs(SignalOverrides)
    /\ driver = "signal"
    /\ trader = TraderInit
    /\ rtds_client = None
    /\ latest_prices = [a \in {} |-> None]
    /\ backtester = BacktesterInit
    /\ now = 0
    /\ ticks = 0
    /\ pc = "init"
    /\ snapshot \in SignalSnapshots
    /\ signal = NoSignal(Str(""))

\* strategy.evaluate_signal(snapshot)
EvaluateSignal ==
    /\ driver = "signal" /\ pc = "init"
    /\ signal' = evaluate_signal(config, snapshot)
    /\ pc' = "evaluate_signal"
    /\ UNCHANGED <<config, driver, rtds_client, trader, latest_prices, backtester, now, ticks, snapshot>>

\* strategy._evaluate_group on the UP prices, for the group and laggard of G1 or G2
EvaluateGroup(g) ==
    /\ driver = "signal" /\ pc = "init"
    /\ required_assets(config) \subseteq DOMAIN snapshot
    /\ signal' = evaluate_group(config, up_prices(config, snapshot),
                                 group_assets_of(config, g), laggard_of(config, g), g)
    /\ pc' = g
    /\ UNCHANGED <<config, driver, rtds_client, trader, latest_prices, backtester, now, ticks, snapshot>>

\* strategy.check_exit(side, current_price); snapshot holds the arguments
CheckExit(side, current_price) ==
    /\ driver = "signal" /\ pc = "init"
    /\ snapshot' = [side |-> side, current_price |-> current_price]
    /\ signal' = [should_exit |-> check_exit(config, side, current_price)[1],
                  reason |-> check_exit(config, side, current_price)[2]]
    /\ pc' = "check_exit"
    /\ UNCHANGED <<config, driver, rtds_client, trader, latest_prices, backtester, now, ticks>>

SignalNext ==
    \/ EvaluateSignal
    \/ \E g \in {"G1", "G2"} : EvaluateGroup(g)
    \/ \E side \in ExitSides, current_price \in ExitPrices : CheckExit(side, current_price)

SpecSignal == SignalInit /\ [][SignalNext]_vars

(***************************************************************************)
(* The window clock alone                                                  *)
(***************************************************************************)
\* window lengths in minutes handed to WindowManager: the default, one that
\* divides the hour and one that does not; _validate looks at none of them
ClockOverrides == { [window_duration_minutes |-> d] : d \in {7, 15, 20} }

\* timestamps of the first minutes of a day, past the first change of hour, at
\* the seconds around the default entry bounds (300 s and 90 s before the end
\* of a 15 minute window)
ClockTimes == { m * 60 + sec : m \in 0..MaxClockMinute, sec \in {0, 30, 31, 59} }

\* max_remaining and min_remaining handed to is_entry_eligible, the last pair
\* with min_remaining above max_remaining
ClockEntryBounds == { <<300, 90>>, <<301, 89>>, <<90, 300>> }

ClockInit ==
    /\ config \in ValidConfigs(ClockOverrides)
    /\ driver = "clock"
    /\ trader = TraderInit
    /\ rtds_client = None
    /\ latest_prices = [a \in {} |-> None]
    /\ backtester = BacktesterInit
    /\ now \in ClockTimes
    /\ ticks = 0
    /\ pc = "init"
    /\ snapshot = [a \in {} |-> None]
    /\ signal = NoSignal(Str(""))

\* window_manager.get_current_window(now), get_time_remaining(now) and the
\* window of the returned end
GetCurrentWindow ==
    /\ driver = "clock" /\ pc = "init"
    /\ snapshot' = [current_time |-> now]
    /\ signal' =
            LET window == get_current_window(config.window_duration_minutes, now)
            IN [ window_start |-> window[1], window_end |-> window[2],
                 time_remaining |-> get_time_remaining(config.window_duration_minutes, now),
                 next_window |-> get_current_window(config.window_duration_minutes, window[2]) ]
    /\ pc' = "get_current_window"
    /\ UNCHANGED <<config, driver, rtds_client, trader, latest_prices, backtester, now, ticks>>

\* window_manager.is_entry_eligible(now, max_remaining, min_remaining)
IsEntryEligible(max_remaining, min_remaining) ==
    /\ driver = "clock" /\ pc = "init"
    /\ snapshot' = [current_time |-> now, max_remaining |-> max_remaining,
                    min_remaining |-> min_remaining]
    /\ signal' =
            [ eligible |-> is_entry_eligible(config.window_duration_minutes, now,
                                             max_remaining, min_remaining),
              time_remaining |-> get_time_remaining(config.window_duration_minutes, now) ]
    /\ pc' = "is_entry_eligible"
    /\ UNCHANGED <<config, driver, rtds_client, trader, latest_prices, backtester, now, ticks>>

\* window_manager.get_window_id at now and at a later time t2
GetWindowId(t2) ==
    /\ driver = "clock" /\ pc = "init" /\ t2 >= now
    /\ snapshot' = [t1 |-> now, t2 |-> t2]
    /\ signal' =
            [ window1 |-> get_current_window(config.window_duration_minutes, now),
              id1 |-> get_window_id(config.window_duration_minutes, now),
              id2 |-> get_window_id(config.window_duration_minutes, t2) ]
    /\ pc' = "get_window_id"
    /\ UNCHANGED <<config, driver, rtds_client, trader, latest_prices, backtester, now, ticks>>

ClockNext ==
    \/ GetCurrentWindow
    \/ \E b \in ClockEntryBounds : IsEntryEligible(b[1], b[2])
    \/ \E t2 \in ClockTimes \cup {now + config.window_duration_minutes * 60} : GetWindowId(t2)

SpecClock == ClockInit /\ [][ClockNext]_vars

(***************************************************************************)
(* Both drivers side by side, fed the same ticks                           *)
(***************************************************************************)
EquivInit ==
    /\ config \in ValidConfigs(DriverOverrides)
    /\ driver = "both"
    /\ trader = [TraderInit EXCEPT !.running = TRUE, !.data_feed = "streaming"]
    /\ rtds_client = None
    /\ latest_prices = [a \in {} |-> None]
    /\ backtester = BacktesterInit
    /\ now = 0
    /\ ticks = 0
    /\ pc = "running"
    /\ snapshot = [a \in {} |-> None]
    /\ signal = NoSignal(Str(""))

\* the same tick for both: the feed delivers the prices of the row and the
\* trader runs _trading_cycle at time t; the backtester processes the row of
\* timestamp t
EquivTick(t, prices) ==
    /\ driver = "both" /\ ticks < MaxTicks /\ (ticks = 0 \/ t > now)
    /\ latest_prices' =
            deliver(latest_prices,
                    [a \in DOMAIN prices |-> PriceData(a, prices[a].value, "feed")],
                    DOMAIN prices)
    /\ trader' = trading_cycle(trader, latest_prices', config, t)
    /\ backtester' = run_timestamp(backtester, config, t, prices)
    /\ snapshot' = prices
    /\ now' = t
    /\ ticks' = ticks + 1
    /\ UNCHANGED <<config, driver, rtds_client, pc, signal>>

EquivNext == \E t \in TickTimes, prices \in CompleteRows : EquivTick(t, prices)

SpecEquiv == EquivInit /\ [][EquivNext]_vars

(***************************************************************************)
(* The price stream alone: the task running EnhancedRTDSClient.connect     *)
(* beside a reader of the cache (data_feed.py)                             *)
(***************************************************************************)
\* connect: max_attempts, a local of the method
max_attempts == 3

\* PriceData with its timestamp, the stream's utcnow() at the emission
PriceDataAt(timestamp, asset, price, source) ==
    [timestamp |-> timestamp, asset |-> asset, price |-> price, source |-> source]

\* EnhancedRTDSClient.__init__; at is where the connect() task stands
\* ("new" before the task is created), attempts the local of connect(), slept
\* the delay of its last sleep, emitted the history of the PriceData handed
\* to the callbacks
RTDSClientInit(reconnect_delay, force_mock, websockets_importable) ==
    [ reconnect_delay |-> reconnect_delay,
      running |-> FALSE,
      force_mock |-> force_mock,
      websockets_available |-> ~force_mock /\ websockets_importable,
      at |-> "new",
      attempts |-> 0,
      slept |-> 0,
      emitted |-> <<>> ]

\* EnhancedRTDSClient._mock_price_stream, up to its loop
mock_price_stream(c) == [c EXCEPT !.running = TRUE, !.at = "mock"]

\* connect: the test of the while loop
connect_loop(c) ==
    IF c.running /\ c.attempts < max_attempts
    THEN [c EXCEPT !.at = "connecting"]
    ELSE [c EXCEPT !.at = "returned"]

\* connect, up to the first websockets.connect
connect(c) ==
    IF c.force_mock \/ ~c.websockets_available
    THEN mock_price_stream(c)
    ELSE connect_loop([c EXCEPT !.running = TRUE, !.attempts = 0])

\* connect: the two except clauses (the same code twice)
connect_except(c) ==
    LET attempts == c.attempts + 1
    IN IF attempts >= max_attempts
       THEN mock_price_stream([c EXCEPT !.attempts = attempts, !.force_mock = TRUE])
       ELSE [c EXCEPT !.attempts = attempts, !.at = "sleeping",
                      !.slept = c.reconnect_delay]

\* the callbacks of the client run on one PriceData after the other
RECURSIVE emit(_, _)
emit(cache, price_datas) ==
    IF price_datas = <<>> THEN cache
    ELSE emit(on_price_update(cache, Head(price_datas)), Tail(price_datas))

\* the configurations of the stream: max_reconnect_attempts and the delay
StreamOverrides ==
    { [max_reconnect_attempts |-> m, reconnect_delay_seconds |-> d] :
        m \in {2, 10}, d \in {1, 5} }

\* prices of the price_update messages and of the mock generator
StreamPrices == {10, 90}

\* the markets the messages of the websocket are about
StreamAssets == {DEFAULT_CONFIG.reference_assets[1], DEFAULT_CONFIG.tradeable_assets[2]}

\* the asset lists get_latest_prices is called with: all assets
\* (_trading_cycle), the asset of the position (_settle_position)
RequestedAssets ==
    { DEFAULT_CONFIG.all_assets,
      <<DEFAULT_CONFIG.tradeable_assets[1]>>,
      <<DEFAULT_CONFIG.tradeable_assets[2]>> }

StreamInit ==
    /\ config \in ValidConfigs(StreamOverrides)
    /\ driver = "stream"
    /\ trader = TraderInit
    /\ rtds_client \in { RTDSClientInit(config.reconnect_delay_seconds, f, w) :
                            f \in BOOLEAN, w \in BOOLEAN }
    /\ latest_prices = [a \in {} |-> None]
    /\ backtester = BacktesterInit
    /\ now = 0
    /\ ticks = 0
    /\ pc = "init"
    /\ snapshot = [assets |-> <<>>, prices |-> [a \in {} |-> None]]
    /\ signal = NoSignal(Str(""))

\* EnhancedDataFeedManager.start_stream: the task of connect() is created
StartStream ==
    /\ driver = "stream" /\ pc = "init"
    /\ rtds_client' = connect(rtds_client)
    /\ pc' = "streaming"
    /\ UNCHANGED <<config, driver, trader, latest_prices, backtester, now, ticks, snapshot, signal>>

\* connect: websockets.connect succeeds and the subscription is sent
ConnectSucceeds ==
    /\ driver = "stream" /\ rtds_client.at = "connecting"
    /\ rtds_client' = [rtds_client EXCEPT !.attempts = 0, !.at = "listening"]
    /\ UNCHANGED <<config, driver, trader, latest_prices, backtester, now, ticks, pc, snapshot, signal>>

\* connect: websockets.connect times out or raises, or the open connection
\* breaks with an exception
ConnectFails ==
    /\ driver = "stream" /\ rtds_client.at \in {"connecting", "listening"}
    /\ rtds_client' = connect_except(rtds_client)
    /\ UNCHANGED <<config, driver, trader, latest_prices, backtester, now, ticks, pc, snapshot, signal>>

\* connect: the server closes the connection normally, the async for ends
ConnectionCloses ==
    /\ driver = "stream" /\ rtds_client.at = "listening"
    /\ rtds_client' = connect_loop(rtds_client)
    /\ UNCHANGED <<config, driver, trader, latest_prices, backtester, now, ticks, pc, snapshot, signal>>

\* connect: the sleep of reconnect_delay seconds is over
ReconnectDelayOver ==
    /\ driver = "stream" /\ rtds_client.at = "sleeping"
    /\ rtds_client' = connect_loop(rtds_client)
    /\ UNCHANGED <<config, driver, trader, latest_prices, backtester, now, ticks, pc, snapshot, signal>>

\* EnhancedRTDSClient._handle_message on a price_update of one market
HandleMessage(asset, price) ==
    /\ driver = "stream" /\ rtds_client.at = "listening"
    /\ ticks < MaxEmissions
    /\ LET price_data == PriceDataAt(now + 1, asset, price, "rtds")
       IN /\ rtds_client' = [rtds_client EXCEPT !.emitted = Append(@, price_data)]
          /\ latest_prices' = emit(latest_prices, <<price_data>>)
    /\ now' = now + 1
    /\ ticks' = ticks + 1
    /\ UNCHANGED <<config, driver, trader, backtester, pc, snapshot, signal>>

\* EnhancedRTDSClient._mock_price_stream: one iteration of the loop, the
\* PriceData of every market emitted without a suspension in between
MockRound(price) ==
    /\ driver = "stream" /\ rtds_client.at = "mock" /\ rtds_client.running
    /\ ticks < MaxEmissions
    /\ LET price_datas ==
            [i \in 1..Len(config.all_assets) |->
                PriceDataAt(now + 1, config.all_assets[i], price, "mock")]
       IN /\ rtds_client' = [rtds_client EXCEPT !.emitted = @ \o price_datas]
          /\ latest_prices' = emit(latest_prices, price_datas)
    /\ now' = now + 1
    /\ ticks' = ticks + 1
    /\ UNCHANGED <<config, driver, trader, backtester, pc, snapshot, signal>>

\* _mock_price_stream: the loop finds running false and the task ends
MockStreamEnds ==
    /\ driver = "stream" /\ rtds_client.at = "mock" /\ ~rtds_client.running
    /\ rtds_client' = [rtds_client EXCEPT !.at = "returned"]
    /\ UNCHANGED <<config, driver, trader, latest_prices, backtester, now, ticks, pc, snapshot, signal>>

\* EnhancedDataFeedManager.shutdown: rtds_client.disconnect()
Disconnect ==
    /\ driver = "stream" /\ pc = "streaming"
    /\ rtds_client' = [rtds_client EXCEPT !.running = FALSE]
    /\ pc' = "shutdown"
    /\ UNCHANGED <<config, driver, trader, latest_prices, backtester, now, ticks, snapshot, signal>>

\* EnhancedDataFeedManager.get_latest_prices, called by the trading loop
GetLatestPrices(assets) ==
    /\ driver = "stream" /\ pc = "streaming"
    /\ snapshot' = [assets |-> assets, prices |-> get_latest_prices(latest_prices, assets)]
    /\ UNCHANGED <<config, driver, rtds_client, trader, latest_prices, backtester, now, ticks, pc, signal>>

StreamNext ==
    \/ StartStream
    \/ ConnectSucceeds
    \/ ConnectFails
    \/ ConnectionCloses
    \/ ReconnectDelayOver
    \/ \E asset \in StreamAssets, price \in StreamPrices : HandleMessage(asset, price)
    \/ \E price \in StreamPrices : MockRound(price)
    \/ MockStreamEnds
    \/ Disconnect
    \/ \E assets \in RequestedAssets : GetLatestPrices(assets)

SpecStream == StreamInit /\ [][StreamNext]_vars

(***************************************************************************)
(* What the claims speak about, for whichever driver runs                  *)
(***************************************************************************)
Pos == IF driver = "backtest" THEN backtester.current_position ELSE trader.current_position
Closed == IF driver = "backtest" THEN backtester.trades ELSE trader.trade_log
Opened == IF driver = "backtest" THEN backtester.opened ELSE trader.opened
Counter == IF driver = "backtest" THEN backtester.trades_this_window
           ELSE trader.trades_this_window
CurrentWindowId == IF driver = "backtest" THEN backtester.current_window_id
                   ELSE trader.current_window_id

EntryTimeOf(tr) == IF "timestamp_entry" \in DOMAIN tr THEN tr.timestamp_entry ELSE tr.entry_time
ExitTimeOf(tr) == IF "timestamp_exit" \in DOMAIN tr THEN tr.timestamp_exit ELSE tr.exit_time
Last(seq) == seq[Len(seq)]

\* a step is a processed tick: a trading cycle, or a replay timestamp that has
\* a row for every asset
ProcessedTick == ticks' = ticks + 1 /\ Assets \subseteq DOMAIN snapshot'

\* the window of time t when the window length divides the hour
WindowStartOf(t) == t - (t % (config.window_duration_minutes * 60))
WindowIdOf(t) ==
    LET start == WindowStartOf(t)
    IN <<start \div 86400, (start % 86400) \div 3600, (start % 3600) \div 60>>
RemainingAt(t) == WindowStartOf(t) + config.window_duration_minutes * 60 - t

\* the trade appended by this step is the close of position p
ClosesPosition(p) ==
    /\ Len(Closed') = Len(Closed) + 1
    /\ SubSeq(Closed', 1, Len(Closed)) = Closed
    /\ EntryTimeOf(Last(Closed')) = p.entry_time
    /\ Last(Closed').window_id = p.window_id
    /\ Last(Closed').asset = p.asset
    /\ Last(Closed').side = p.side
    /\ Last(Closed').entry_price = p.entry_price

\* C1: at most one position is open at any time: a step opens at most one
\* position, and when it opens one while a position was open, that position
\* is recorded as a closed trade by the same step.
C1_AtMostOnePosition ==
    [][ Len(Opened') > Len(Opened) =>
            /\ Len(Opened') = Len(Opened) + 1
            /\ (Pos' # None => Pos' = Last(Opened'))
            /\ (Pos # None =>
                    /\ Len(Closed') > Len(Closed)
                    /\ EntryTimeOf(Closed'[Len(Closed) + 1]) = Pos.entry_time
                    /\ Closed'[Len(Closed) + 1].asset = Pos.asset
                    /\ Closed'[Len(Closed) + 1].entry_price = Pos.entry_price) ]_vars

\* C1 witness: a position was settled at a window change and the next one was
\* opened by the same tick.
C1_Witness ==
    /\ Pos # None /\ Len(Opened) >= 2 /\ Len(Closed) >= 1
    /\ ExitTimeOf(Last(Closed)) = Pos.entry_time
    /\ EntryTimeOf(Last(Closed)) = Opened[Len(Opened) - 1].entry_time

\* C2: at the end of every processed tick an open position belongs to the
\* window of the tick's time, and a position of another window is closed by
\* the tick, as the first thing the tick records.
C2_NoPositionAcrossWindows ==
    [][ ProcessedTick =>
            /\ (Pos' # None => Pos'.window_id = WindowIdOf(now'))
            /\ (Pos # None /\ Pos.window_id # WindowIdOf(now') =>
                    /\ Len(Closed') > Len(Closed)
                    /\ EntryTimeOf(Closed'[Len(Closed) + 1]) = Pos.entry_time
                    /\ ExitTimeOf(Closed'[Len(Closed) + 1]) = now'
                    /\ Pos' # Pos) ]_vars

\* C2 witness: a tick of a later window has closed the position of an earlier one.
C2_Witness ==
    /\ pc = "running" /\ Len(Closed) >= 1
    /\ ExitTimeOf(Last(Closed)) = now
    /\ Last(Closed).window_id # WindowIdOf(now)

\* the price last observed for an asset when the tick settles: the cache
\* entry after the stream's deliveries (live), the row of the timestamp (backtest)
LastObserved(asset) ==
    IF driver = "backtest" THEN snapshot'[asset].value ELSE latest_prices'[asset].price

\* C3: a position still open at the first processed tick of a later window is
\* closed by that tick with reason WINDOW_EXPIRY at the price last observed
\* for its asset.
C3_ForcedSettlement ==
    [][ ( /\ ProcessedTick
          /\ Pos # None
          /\ Pos.window_id # WindowIdOf(now')
          /\ (driver = "live" => Pos.asset \in DOMAIN latest_prices') ) =>
            /\ Len(Closed') > Len(Closed)
            /\ Closed'[Len(Closed) + 1].exit_reason = Str("WINDOW_EXPIRY")
            /\ Closed'[Len(Closed) + 1].exit_price = LastObserved(Pos.asset)
            /\ EntryTimeOf(Closed'[Len(Closed) + 1]) = Pos.entry_time ]_vars

\* C3 witness: the live trader has settled a position at a window change, with
\* the price of the position's asset in the cache.
C3_Witness ==
    /\ driver = "live" /\ pc = "running" /\ Len(Closed) >= 1
    /\ Last(Closed).exit_reason = Str("WINDOW_EXPIRY")
    /\ Last(Closed).asset \in DOMAIN latest_prices
    /\ Last(Closed).exit_price = latest_prices[Last(Closed).asset].price
    /\ Last(Closed).exit_price # Last(Closed).entry_price

\* the conditions of an exit evaluation of position p at price q
StopLossHolds(p, q) ==
    IF p.side = "UP" THEN q <= p.stop_loss_price ELSE q >= p.stop_loss_price
TargetHolds(p, q) ==
    IF p.side = "UP" THEN q >= config.exit_up_threshold ELSE q <= config.exit_down_threshold

\* the price the live exit evaluation of this step works on
CurrentPrice(p) == exit_quote([current_position |-> p], snapshot'[p.asset])

\* C4: an exit evaluation of the live trader at which the stop-loss condition
\* holds closes the position once, with reason STOP_LOSS, also when the
\* target condition holds at the same price.
C4_StopLossPrecedence ==
    [][ ( /\ driver = "live" /\ ProcessedTick
          /\ Pos # None /\ Pos.window_id = WindowIdOf(now')
          /\ StopLossHolds(Pos, CurrentPrice(Pos)) ) =>
            /\ ClosesPosition(Pos)
            /\ Last(Closed').exit_reason = Str("STOP_LOSS")
            /\ Last(Closed').exit_price = CurrentPrice(Pos)
            /\ Pos' = None ]_vars

\* C4 witness: a trade closed with STOP_LOSS at a price at which the target
\* condition holds too.
C4_Witness ==
    /\ driver = "live" /\ Len(Closed) >= 1
    /\ Last(Closed).exit_reason = Str("STOP_LOSS")
    /\ IF Last(Closed).side = "UP"
       THEN Last(Closed).exit_price >= config.exit_up_threshold
       ELSE Last(Closed).exit_price <= config.exit_down_threshold

\* the exit-reason taxonomy: the reason a recorded exit_reason string stands for
ReasonCode(r) ==
    IF r.text \in {"TARGET_HIT (>= {})", "TARGET_HIT (<= {})"} THEN "TARGET_HIT"
    ELSE IF r.text \in {"SHUTDOWN", "BACKTEST_END"} THEN "FORCED_CLOSE"
    ELSE r.text

\* C5: when the live trader closes a position on a tick, the recorded reason
\* is the highest-priority exit condition that holds at the tick's price, in
\* the order STOP_LOSS > TARGET_HIT > WINDOW_EXPIRY, also on the first tick of
\* a new window.
C5_ExitReasonPriority ==
    [][ ( /\ driver = "live" /\ ProcessedTick
          /\ Pos # None /\ Len(Closed') > Len(Closed) ) =>
            ReasonCode(Closed'[Len(Closed) + 1].exit_reason) =
                IF StopLossHolds(Pos, CurrentPrice(Pos)) THEN "STOP_LOSS"
                ELSE IF TargetHolds(Pos, CurrentPrice(Pos)) THEN "TARGET_HIT"
                ELSE "WINDOW_EXPIRY" ]_vars

OpenedIn(w) == {i \in DOMAIN Opened : Opened[i].window_id = w}

\* C7: no window id has more than max_trades_per_window positions opened in
\* it, and trades_this_window is the number of positions opened in the
\* current window.
C7_PerWindowTradeLimit ==
    /\ \A i \in DOMAIN Opened :
            Cardinality(OpenedIn(Opened[i].window_id)) <= config.max_trades_per_window
    /\ Counter = Cardinality(OpenedIn(CurrentWindowId))

\* C7 witness: the position of the current window was closed by stop loss or
\* target on an earlier tick, the current tick is entry-eligible and its
\* snapshot fires a signal, and no position was opened.
C7_Witness ==
    /\ driver \in {"live", "backtest"} /\ pc = "running"
    /\ Pos = None /\ Len(Closed) >= 1
    /\ Counter = config.max_trades_per_window
    /\ Last(Closed).window_id = CurrentWindowId
    /\ ReasonCode(Last(Closed).exit_reason) \in {"STOP_LOSS", "TARGET_HIT"}
    /\ ExitTimeOf(Last(Closed)) < now
    /\ config.entry_window_min_remaining_seconds <= RemainingAt(now)
    /\ RemainingAt(now) <= config.entry_window_max_remaining_seconds
    /\ Assets \subseteq DOMAIN snapshot
    /\ evaluate_signal(config, snapshot).signal # "None"

(***************************************************************************)
(* The strategy alone                                                      *)
(***************************************************************************)
\* the UP price of asset a in the snapshot
PriceOf(a) == IF "value" \in DOMAIN snapshot[a] THEN snapshot[a].value ELSE snapshot[a].UP

Complete == Assets \subseteq DOMAIN snapshot

\* g is "G1" (group: reference assets + tradeable A, laggard B) or "G2"
\* (group: reference assets + tradeable B, laggard A)
GroupOf(g) ==
    SeqToSet(config.reference_assets)
        \cup {config.tradeable_assets[IF g = "G1" THEN 1 ELSE 2]}
LaggardOf(g) == config.tradeable_assets[IF g = "G1" THEN 2 ELSE 1]

UpCondition(g) ==
    /\ \A a \in GroupOf(g) :
            config.zone_high_min <= PriceOf(a) /\ PriceOf(a) <= config.zone_high_max
    /\ config.laggard_up_entry_min <= PriceOf(LaggardOf(g))
    /\ PriceOf(LaggardOf(g)) <= config.laggard_up_entry_max

DownCondition(g) ==
    /\ \A a \in GroupOf(g) :
            config.zone_low_min <= PriceOf(a) /\ PriceOf(a) <= config.zone_low_max
    /\ config.laggard_down_entry_min <= PriceOf(LaggardOf(g))
    /\ PriceOf(LaggardOf(g)) <= config.laggard_down_entry_max

Fires(g) == UpCondition(g) \/ DownCondition(g)

\* C8: when the conditions of G1 and of G2 both hold, evaluate_signal returns
\* a signal of G1 on tradeable asset B at B's price.
C8_SignalPriority ==
    (pc = "evaluate_signal" /\ Complete /\ Fires("G1") /\ Fires("G2")) =>
        /\ signal.group_config = "G1"
        /\ signal.asset = config.tradeable_assets[2]
        /\ signal.signal \in {"UP", "DOWN"}
        /\ signal.laggard_price = PriceOf(config.tradeable_assets[2])
        /\ signal.group_assets = config.reference_assets \o <<config.tradeable_assets[1]>>

\* C8 witness: evaluate_signal was applied to a snapshot on which both groups fire.
C8_Witness ==
    pc = "evaluate_signal" /\ Complete /\ Fires("G1") /\ Fires("G2")

\* C9: the group evaluation returns UP on the laggard exactly when every
\* group price is in [zone_high_min, zone_high_max] and the laggard price is
\* in [laggard_up_entry_min, laggard_up_entry_max], bounds included.
C9_UpFiring ==
    pc \in {"G1", "G2"} =>
        ( (signal.signal = "UP" /\ signal.asset = LaggardOf(pc)) <=> UpCondition(pc) )

\* C9 witness: UP returned with a group price on zone_high_min and the laggard
\* price on laggard_up_entry_max.
C9_Witness ==
    /\ pc \in {"G1", "G2"} /\ signal.signal = "UP"
    /\ \E a \in GroupOf(pc) : PriceOf(a) = config.zone_high_min
    /\ PriceOf(LaggardOf(pc)) = config.laggard_up_entry_max

\* C10: for every configuration that passes validation, the group evaluation
\* returns DOWN on the laggard exactly when every group price is in the low
\* zone and the laggard price is in the down-entry laggard zone.
C10_DownFiring ==
    pc \in {"G1", "G2"} =>
        ( (signal.signal = "DOWN" /\ signal.asset = LaggardOf(pc)) <=> DownCondition(pc) )

\* C11: when a reference or tradeable asset is absent from the snapshot,
\* evaluate_signal returns without error a result whose signal, asset, group
\* and laggard price are all None, whatever the prices present.
C11_MissingData ==
    (pc = "evaluate_signal" /\ ~Complete) =>
        /\ signal.signal = "None"
        /\ signal.asset = "None"
        /\ signal.group_config = "None"
        /\ signal.group_assets = <<>>
        /\ signal.group_prices = <<>>
        /\ signal.laggard_price = NonePrice

\* C11 witness: evaluate_signal was applied to a snapshot without the laggard of
\* G1 in which the group of G1 is in the high zone.
C11_Witness ==
    /\ pc = "evaluate_signal"
    /\ DOMAIN snapshot = Assets \ {LaggardOf("G1")}
    /\ \A a \in GroupOf("G1") : PriceOf(a) >= config.zone_high_min

\* C12: check_exit returns should-exit true exactly when the side is UP and the
\* price is at or above exit_up_threshold, or the side is DOWN and the price is
\* at or below exit_down_threshold; otherwise it returns (False, HOLDING).
C12_TargetExit ==
    pc = "check_exit" =>
        /\ signal.should_exit <=>
                \/ snapshot.side = "UP" /\ snapshot.current_price >= config.exit_up_threshold
                \/ snapshot.side = "DOWN" /\ snapshot.current_price <= config.exit_down_threshold
        /\ ~signal.should_exit => signal.reason = Str("HOLDING")
        /\ signal.should_exit => signal.reason.text \in {"TARGET_HIT (>= {})", "TARGET_HIT (<= {})"}

\* C12 witness: check_exit returned true for a price equal to the threshold.
C12_Witness ==
    /\ pc = "check_exit" /\ signal.should_exit
    /\ snapshot.current_price =
            IF snapshot.side = "UP" THEN config.exit_up_threshold ELSE config.exit_down_threshold

\* C13: every closed trade has pnl = (exit_price - entry_price) * stake for UP
\* and (entry_price - exit_price) * stake for DOWN, which is what
\* calculate_pnl gives, and outcome WIN exactly when the pnl is positive (a
\* zero pnl is a LOSS).
C13_PnlAndOutcome ==
    \A i \in DOMAIN Closed :
        LET tr == Closed[i]
        IN /\ tr.side \in {"UP", "DOWN"}
           /\ tr.stake_size = config.stake_size_usd
           /\ tr.pnl_usd = IF tr.side = "UP"
                           THEN (tr.exit_price - tr.entry_price) * tr.stake_size
                           ELSE (tr.entry_price - tr.exit_price) * tr.stake_size
           /\ tr.pnl_usd = calculate_pnl(tr.entry_price, tr.exit_price, tr.side, tr.stake_size)
           /\ tr.outcome = IF tr.pnl_usd > 0 THEN "WIN" ELSE "LOSS"

\* C13 witness: with a stake of 2, a trade closed at its entry price (zero pnl,
\* LOSS) and a DOWN trade closed at a profit.
C13_Witness ==
    /\ config.stake_size_usd = 2 /\ Len(Closed) >= 2
    /\ \E i \in DOMAIN Closed : Closed[i].pnl_usd = 0 /\ Closed[i].outcome = "LOSS"
    /\ \E i \in DOMAIN Closed :
            /\ Closed[i].side = "DOWN" /\ Closed[i].outcome = "WIN"
            /\ Closed[i].pnl_usd = 2 * (Closed[i].entry_price - Closed[i].exit_price)

\* the sum of the pnl of the first k trades of a ledger
RECURSIVE SumPnl(_, _)
SumPnl(ledger, k) == IF k = 0 THEN 0 ELSE SumPnl(ledger, k - 1) + ledger[k].pnl_usd

\* the counters agree with the ledger: the live trader's total_trades,
\* total_pnl, trade_number and cumulative_pnl; the backtester's trade_counter,
\* trade_id and equity_curve
LedgerConsistent ==
    IF driver = "backtest"
    THEN /\ backtester.trade_counter = Len(backtester.trades)
         /\ Len(backtester.equity_curve) = Len(backtester.trades)
         /\ \A k \in DOMAIN backtester.trades :
                /\ backtester.trades[k].trade_id = k
                /\ backtester.equity_curve[k] = backtester.trades[k].pnl_usd
    ELSE /\ trader.total_trades = Len(trader.trade_log)
         /\ trader.total_pnl = SumPnl(trader.trade_log, Len(trader.trade_log))
         /\ \A k \in DOMAIN trader.trade_log :
                /\ trader.trade_log[k].trade_number = k
                /\ trader.trade_log[k].cumulative_pnl = SumPnl(trader.trade_log, k)

StopLevelAtEntry(p) ==
    IF p.side = "UP"
    THEN (IF p.entry_price - config.stop_loss_pct < 0 THEN 0
          ELSE p.entry_price - config.stop_loss_pct)
    ELSE (IF p.entry_price + config.stop_loss_pct > 100 THEN 100
          ELSE p.entry_price + config.stop_loss_pct)

\* C15: every position the live trader opens has stop_loss_price =
\* max(0, entry_price - stop_loss_pct) for UP and min(1, entry_price +
\* stop_loss_pct) for DOWN, inside [0, 1], and a position that stays open keeps
\* its level.
C15_StopLossLevel ==
    [][ driver = "live" =>
            /\ \A i \in DOMAIN trader'.opened :
                    /\ trader'.opened[i].stop_loss_price = StopLevelAtEntry(trader'.opened[i])
                    /\ 0 <= trader'.opened[i].stop_loss_price
                    /\ trader'.opened[i].stop_loss_price <= 100
            /\ (Pos' # None => Pos' = Last(Opened'))
            /\ (Pos # None /\ Pos' # None /\ Len(Opened') = Len(Opened) =>
                    Pos'.stop_loss_price = Pos.stop_loss_price) ]_vars

\* C15 witness: an UP position whose level was clamped to 0 is still open a
\* tick after its entry.
C15_Witness ==
    /\ driver = "live" /\ Pos # None /\ Pos.side = "UP"
    /\ Pos.entry_price < config.stop_loss_pct /\ Pos.stop_loss_price = 0
    /\ now > Pos.entry_time

\* what the claim compares of a position and of a closed trade
PositionView(p) == <<p.asset, p.side, p.entry_price>>
TradeView(tr) ==
    <<tr.asset, tr.side, tr.entry_price, tr.exit_price, tr.exit_reason, tr.pnl_usd>>

\* C16: fed the same sequence of tick times and complete snapshots, the live
\* trader and the backtester have opened the same positions and recorded the
\* same closed trades (asset, direction, entry price, exit price, exit reason,
\* pnl), stop-loss exits included.
C16_SameTrades ==
    driver = "both" =>
        /\ Len(trader.opened) = Len(backtester.opened)
        /\ \A i \in DOMAIN trader.opened :
                PositionView(trader.opened[i]) = PositionView(backtester.opened[i])
        /\ Len(trader.trade_log) = Len(backtester.trades)
        /\ \A k \in DOMAIN trader.trade_log :
                TradeView(trader.trade_log[k]) = TradeView(backtester.trades[k])

\* C20: the shutdown of the live trader sets running to false, closes the
\* open position exactly once (one trade appended, reason SHUTDOWN; none when
\* no position is open) and leaves no position open, the feed is shut down
\* only with no position open, and no trading cycle runs afterwards.
C20_CooperativeShutdown ==
    [][ driver = "live" =>
            /\ (pc # "done" /\ pc' = "done") =>
                    /\ ~trader'.running /\ Pos' = None
                    /\ trader'.data_feed # "streaming"
                    /\ IF Pos # None
                       THEN /\ ClosesPosition(Pos)
                            /\ Last(Closed').exit_reason = Str("SHUTDOWN")
                       ELSE Closed' = Closed
            /\ (trader.running /\ ~trader'.running) => pc' = "done"
            /\ trader'.data_feed = "shutdown" => (Pos' = None /\ ~trader'.running)
            /\ pc = "done" => (ticks' = ticks /\ trader' = trader) ]_vars

\* C20 witness: the shutdown has closed the position that was open, and the
\* feed is shut down.
C20_Witness ==
    /\ driver = "live" /\ pc = "done" /\ Pos = None /\ ~trader.running
    /\ trader.data_feed = "shutdown"
    /\ Len(Closed) >= 1
    /\ Last(Closed).exit_reason = Str("SHUTDOWN")
    /\ Last(Closed).exit_price # Last(Closed).entry_price

(***************************************************************************)
(* The window clock alone                                                  *)
(***************************************************************************)
WindowSeconds == config.window_duration_minutes * 60

\* C17: is_entry_eligible is true exactly when min_remaining <= remaining <=
\* max_remaining: true with remaining on either bound, false one second
\* outside.
C17_EligibilityBoundary ==
    pc = "is_entry_eligible" =>
        ( signal.eligible <=>
            /\ snapshot.min_remaining <= signal.time_remaining
            /\ signal.time_remaining <= snapshot.max_remaining )

\* C17 witness: eligible with exactly min_remaining seconds left.
C17_Witness ==
    /\ pc = "is_entry_eligible" /\ signal.eligible
    /\ signal.time_remaining = snapshot.min_remaining

\* C18: for every window length, a time t2 inside the window [start, end)
\* returned for t1 has the window id of t1, and t2 = t1 + window_duration has
\* another.
C18_WindowDeterminism ==
    pc = "get_window_id" =>
        /\ (signal.window1[1] <= snapshot.t2 /\ snapshot.t2 < signal.window1[2]) =>
                signal.id1 = signal.id2
        /\ snapshot.t2 = snapshot.t1 + WindowSeconds => signal.id1 # signal.id2

\* C19: for every window length, get_current_window(t) returns (start, end)
\* with end = start + window_duration, start <= t < end and start the floor of
\* t to a multiple of window_duration; the window of end starts at end; and
\* get_time_remaining(t) = end - t lies in [0, window_duration].
C19_WindowsTileTime ==
    pc = "get_current_window" =>
        /\ signal.window_end = signal.window_start + WindowSeconds
        /\ signal.window_start <= now /\ now < signal.window_end
        /\ signal.window_start = now - (now % WindowSeconds)
        /\ signal.next_window[1] = signal.window_end
        /\ signal.time_remaining = signal.window_end - now
        /\ 0 <= signal.time_remaining /\ signal.time_remaining <= WindowSeconds

(***************************************************************************)
(* What the claims about the price stream speak about                      *)
(***************************************************************************)
\* the PriceData the stream has emitted for an asset so far, in order
EmittedFor(a) ==
    SelectSeq(rtds_client.emitted, LAMBDA price_data : price_data.asset = a)

\* the entries of the last result of get_latest_prices that come from the stream
Delivered(result) == {a \in DOMAIN result : result[a].source # "default"}

\* C21: a snapshot read from the cache holds prices of one update of the
\* feed only: no two of its delivered entries were emitted at different times.
C21_SnapshotOneRound ==
    driver = "stream" =>
        \A a \in Delivered(snapshot.prices), b \in Delivered(snapshot.prices) :
            snapshot.prices[a].timestamp = snapshot.prices[b].timestamp

\* C22: the connection attempts that fail in a row, counted by connect(),
\* never exceed the configured max_reconnect_attempts, and a retry waits the
\* configured reconnect delay.
C22_BoundedReconnection ==
    driver = "stream" =>
        /\ rtds_client.attempts <= config.max_reconnect_attempts
        /\ rtds_client.at = "sleeping" => rtds_client.slept = config.reconnect_delay_seconds

\* C26: get_latest_prices(assets) returns one entry for every requested
\* asset and for no other; the entry of an asset the stream has emitted a
\* price for is the last PriceData emitted for it, the entry of any other
\* asset has price 0.5 and source "default".
C26_SnapshotTotal ==
    [][ (driver = "stream" /\ snapshot' # snapshot) =>
            LET result == snapshot'.prices
            IN /\ DOMAIN result = SeqToSet(snapshot'.assets)
               /\ \A a \in DOMAIN result :
                    IF EmittedFor(a) # <<>>
                    THEN result[a] = Last(EmittedFor(a))
                    ELSE /\ result[a].asset = a
                         /\ result[a].price = 50
                         /\ result[a].source = "default" ]_vars

\* a snapshot of all assets with a default entry beside the entry of an asset
\* the stream has emitted two different prices for
C26_Witness ==
    /\ driver = "stream"
    /\ SeqToSet(snapshot.assets) = Assets
    /\ \E a \in Assets : snapshot.prices[a].source = "default"
    /\ \E a \in Assets :
        /\ Len(EmittedFor(a)) >= 2
        /\ EmittedFor(a)[1].price # Last(EmittedFor(a)).price
        /\ snapshot.prices[a] = Last(EmittedFor(a))

(***************************************************************************)
(* The start of the program alone: Config(config_dict), then the           *)
(* components built from it                                                *)
(***************************************************************************)
\* the config_dict handed to Config: zone bounds, the entry window and the
\* window length, in order, inverted, overlapping or non-positive
ConfigDicts ==
    { [ zone_high_min |-> h, zone_low_max |-> l,
        entry_window_min_remaining_seconds |-> e,
        window_duration_minutes |-> d ] :
        h \in {75, 20, 100}, l \in {25, 90, 0}, e \in {90, 300, 400}, d \in {15, 0, -5} }

ConfigStartInit ==
    /\ config \in ConfigDicts
    /\ driver = "config"
    /\ trader = TraderInit
    /\ rtds_client = None
    /\ latest_prices = [a \in {} |-> None]
    /\ backtester = BacktesterInit
    /\ now = 0
    /\ ticks = 0
    /\ pc = "init"
    /\ snapshot = [a \in {} |-> None]
    /\ signal = NoSignal(Str(""))

\* Config.__init__ returns: no assertion of _validate failed
ConfigConstructed ==
    /\ driver = "config" /\ pc = "init"
    /\ Validate(ConfigInit(config))
    /\ config' = ConfigInit(config)
    /\ pc' = "configured"
    /\ UNCHANGED <<driver, rtds_client, trader, latest_prices, backtester, now, ticks, snapshot, signal>>

\* Config.__init__ raises the AssertionError of _validate
ConfigAssertionError ==
    /\ driver = "config" /\ pc = "init"
    /\ ~Validate(ConfigInit(config))
    /\ pc' = "AssertionError"
    /\ UNCHANGED <<config, driver, rtds_client, trader, latest_prices, backtester, now, ticks, snapshot, signal>>

\* EnhancedLiveTrader.__init__: WindowManager(config["window_duration_minutes"])
\* and the strategy are built from the configuration, neither with a check
TraderConstructed ==
    /\ driver = "config" /\ pc = "configured"
    /\ trader' = TraderInit
    /\ signal' = [ window_duration_minutes |-> config.window_duration_minutes,
                   zone_high |-> zone_high(config), zone_low |-> zone_low(config) ]
    /\ pc' = "constructed"
    /\ UNCHANGED <<config, driver, rtds_client, latest_prices, backtester, now, ticks, snapshot>>

ConfigNext ==
    \/ ConfigConstructed
    \/ ConfigAssertionError
    \/ TraderConstructed

SpecConfig == ConfigStartInit /\ [][ConfigNext]_vars

\* C23: a configuration with an inverted zone or entry window, with
\* overlapping high and low zones, or with a non-positive window length is
\* never constructed: Config raises for it.
C23_InvalidConfigFatal ==
    (driver = "config" /\ pc \in {"configured", "constructed"}) =>
        /\ config.zone_high_min < config.zone_high_max
        /\ config.zone_low_min < config.zone_low_max
        /\ config.entry_window_min_remaining_seconds < config.entry_window_max_remaining_seconds
        /\ config.zone_low_max < config.zone_high_min
        /\ config.window_duration_minutes > 0

(***************************************************************************)
(* The live trader on the wall clock: datetime.utcnow() is not monotonic,  *)
(* the time of a cycle may lie before the time of the cycle before it      *)
(***************************************************************************)
\* what the stream delivers between two cycles: a price for every market
WallClockRounds ==
    { [a \in DOMAIN r |-> PriceData(a, r[a].value, "feed")] : r \in CompleteRows }

WallClockInit ==
    /\ config \in ValidConfigs(DriverOverrides)
    /\ driver = "live"
    /\ trader = TraderInit
    /\ rtds_client = None
    /\ latest_prices = [a \in {} |-> None]
    /\ backtester = BacktesterInit
    /\ now = 0
    /\ ticks = 0
    /\ pc = "init"
    /\ snapshot = [a \in {} |-> None]
    /\ signal = NoSignal(Str(""))

\* one iteration of the loop of EnhancedLiveTrader.run, utcnow() = t whatever
\* the time of the cycle before was
WallClockTick(t, round) ==
    /\ driver = "live" /\ pc = "running" /\ trader.running
    /\ ticks < MaxTicks
    /\ latest_prices' = deliver(latest_prices, round, DOMAIN round)
    /\ trader' = trading_cycle(trader, latest_prices', config, t)
    /\ snapshot' = option_prices(get_latest_prices(latest_prices', config.all_assets))
    /\ now' = t
    /\ ticks' = ticks + 1
    /\ UNCHANGED <<config, driver, rtds_client, backtester, pc, signal>>

WallClockNext ==
    \/ LiveRun
    \/ \E t \in TickTimes, round \in WallClockRounds : WallClockTick(t, round)
    \/ LiveShutdown

SpecWallClock == WallClockInit /\ [][WallClockNext]_vars

\* C24: the new-window handling runs once per window id: no cycle makes a
\* window id current in which a position was opened before it became current,
\* and no window id ever has more than max_trades_per_window positions.
C24_WindowHandledOnce ==
    [][ driver = "live" =>
            /\ CurrentWindowId' # CurrentWindowId => OpenedIn(CurrentWindowId') = {}
            /\ \A i \in DOMAIN Opened' :
                  Cardinality({j \in DOMAIN Opened' :
                                  Opened'[j].window_id = Opened'[i].window_id})
                      <= config.max_trades_per_window ]_vars

(***************************************************************************)
(* The trading cycle step by step: _trading_cycle suspends where           *)
(* get_latest_prices sleeps because the cache lacks an asset, and the stop *)
(* signal is delivered to the task wherever it is suspended                *)
(***************************************************************************)
\* _trading_cycle up to the call of get_latest_prices: the new-window check
trading_cycle_new_window(s, cache, c, current_time) ==
    LET window_id == get_window_id(c.window_duration_minutes, current_time)
    IN IF window_id # s.current_window_id
       THEN handle_new_window(s, cache, window_id, current_time)
       ELSE s

\* _trading_cycle from the result of get_latest_prices on
trading_cycle_actions(s, cache, c, current_time) ==
    LET prices == option_prices(get_latest_prices(cache, c.all_assets))
    IN IF s.current_position = None
       THEN check_entry(s, c, current_time, prices)
       ELSE trader_check_exit(s, c, current_time, prices)

\* get_latest_prices returns without sleeping: the cache has every asset
PricesReady(cache, assets) == SeqToSet(assets) \subseteq DOMAIN cache

\* what the stream delivers between two steps of the cycle: the rounds with
\* the group of G1 high, with or without a price for its laggard, or nothing
CycleRounds ==
    { r \in Rounds :
        \A a \in DOMAIN r : a = DEFAULT_CONFIG.tradeable_assets[2] \/ r[a].price = 90 }

CycleInit ==
    /\ config \in ValidConfigs(DriverOverrides)
    /\ driver = "live"
    /\ trader = [TraderInit EXCEPT !.running = TRUE, !.data_feed = "streaming"]
    /\ rtds_client = None
    /\ latest_prices = [a \in {} |-> None]
    /\ backtester = BacktesterInit
    /\ now = 0
    /\ ticks = 0
    /\ pc = "sleep"
    /\ snapshot = [a \in {} |-> None]
    /\ signal = NoSignal(Str(""))

\* run: the sleep between two cycles is over and _trading_cycle starts at
\* utcnow() = t; it runs to its end if get_latest_prices does not sleep
CycleBegins(t, round) ==
    /\ driver = "live" /\ pc \in {"sleep", "except"} /\ trader.running
    /\ ticks < MaxTicks /\ (ticks = 0 \/ t > now)
    /\ latest_prices' = deliver(latest_prices, round, DOMAIN round)
    /\ LET s1 == trading_cycle_new_window(trader, latest_prices', config, t)
       IN IF PricesReady(latest_prices', config.all_assets)
          THEN /\ trader' = trading_cycle_actions(s1, latest_prices', config, t)
               /\ snapshot' = option_prices(get_latest_prices(latest_prices', config.all_assets))
               /\ pc' = "sleep"
          ELSE /\ trader' = s1
               /\ snapshot' = snapshot
               /\ pc' = "get_latest_prices"
    /\ now' = t
    /\ ticks' = ticks + 1
    /\ UNCHANGED <<config, driver, rtds_client, backtester, signal>>

\* get_latest_prices wakes up with every asset in the cache or with its 5 s
\* used up, and the cycle runs to its end
CycleResumes(round) ==
    /\ driver = "live" /\ pc = "get_latest_prices"
    /\ latest_prices' = deliver(latest_prices, round, DOMAIN round)
    /\ trader' = trading_cycle_actions(trader, latest_prices', config, now)
    /\ snapshot' = option_prices(get_latest_prices(latest_prices', config.all_assets))
    /\ pc' = "sleep"
    /\ UNCHANGED <<config, driver, rtds_client, backtester, now, ticks, signal>>

\* the stop signal: the task of main is cancelled at the await it is
\* suspended in, a sleep of run or the sleep of get_latest_prices, and the
\* finally clause of main calls shutdown
StopSignal ==
    /\ driver = "live" /\ pc \in {"sleep", "except", "get_latest_prices"}
    /\ trader' = shutdown(trader, latest_prices, now)
    /\ pc' = "done"
    /\ UNCHANGED <<config, driver, rtds_client, latest_prices, backtester, now, ticks, snapshot, signal>>

\* the except clause of run with the loop given up
run_except_stop(s) == [s EXCEPT !.running = FALSE]

\* run: except Exception: the error is logged and the loop sleeps 5 s
run_except(s) == s

\* where a trading cycle raises: at its start (get_current_window) or at
\* the end of _handle_new_window (refresh_markets)
RaisingCalls == {"get_current_window", "refresh_markets"}

\* a trading cycle started at utcnow() = t raises an exception, which run
\* catches; signal keeps the call that raised, as the log of run does
CycleRaises(t, call) ==
    /\ driver = "live" /\ pc \in {"sleep", "except"} /\ trader.running
    /\ ticks < MaxTicks /\ (ticks = 0 \/ t > now)
    /\ trader' = run_except(IF call = "refresh_markets"
                            THEN trading_cycle_new_window(trader, latest_prices, config, t)
                            ELSE trader)
    /\ signal' = [exception |-> call]
    /\ pc' = "except"
    /\ now' = t
    /\ ticks' = ticks + 1
    /\ UNCHANGED <<config, driver, rtds_client, latest_prices, backtester, snapshot>>

CycleNext ==
    \/ \E t \in TickTimes, round \in CycleRounds : CycleBegins(t, round)
    \/ \E round \in CycleRounds : CycleResumes(round)
    \/ \E t \in TickTimes, call \in RaisingCalls : CycleRaises(t, call)
    \/ StopSignal

SpecCycle == CycleInit /\ [][CycleNext]_vars

\* C25: a trading cycle that has started runs to its end: while a cycle is
\* suspended in get_latest_prices the only step of the trader is the rest of
\* that cycle, also when the stop signal arrives.
C25_CycleRunsToCompletion ==
    [][ (driver = "live" /\ pc = "get_latest_prices") => pc' = "sleep" ]_vars

\* C27: a replay timestamp whose rows lack an asset changes nothing: the
\* backtester is the same before and after it (position, trades, counter,
\* window id, positions opened); after the last timestamp of the data only
\* the final settlement of the run, with reason BACKTEST_END, has acted.
C27_IncompleteTimestampSkipped ==
    [][ (driver = "backtest" /\ ticks' = ticks + 1
            /\ ~(SeqToSet(config.all_assets) \subseteq DOMAIN snapshot')) =>
            IF pc' = "done"
            THEN /\ backtester'.opened = backtester.opened
                 /\ backtester'.trades_this_window = backtester.trades_this_window
                 /\ backtester'.current_window_id = backtester.current_window_id
                 /\ IF backtester.current_position = None
                    THEN backtester' = backtester
                    ELSE /\ Len(backtester'.trades) = Len(backtester.trades) + 1
                         /\ SubSeq(backtester'.trades, 1, Len(backtester.trades))
                                = backtester.trades
                         /\ Last(backtester'.trades).exit_reason = Str("BACKTEST_END")
            ELSE backtester' = backtester ]_vars

\* an incomplete timestamp in the middle of the data, in a window other than
\* the current one, with a position open: it was neither settled nor was the
\* counter reset
C27_Witness ==
    /\ driver = "backtest" /\ pc = "running"
    /\ ~(SeqToSet(config.all_assets) \subseteq DOMAIN snapshot)
    /\ Pos # None
    /\ Counter >= 1
    /\ WindowIdOf(now) # CurrentWindowId

\* C28: a cycle of the live trader that closes the open position closes it
\* at the price of the position's asset in the quote the entry price was taken
\* in (the UP price of the snapshot); a position whose asset has the price of its
\* entry, a price between the two targets, is not closed by a target and
\* closes, if at all, with pnl 0.
C28_ExitOnEntryQuote ==
    [][ (driver = "live" /\ ProcessedTick /\ Pos # None
            /\ Len(Closed') = Len(Closed) + 1) =>
            /\ Last(Closed').exit_price = snapshot'[Pos.asset].UP
            /\ (/\ snapshot'[Pos.asset].UP = Pos.entry_price
                /\ config.exit_down_threshold < Pos.entry_price
                /\ Pos.entry_price < config.exit_up_threshold) =>
                  /\ ReasonCode(Last(Closed').exit_reason) # "TARGET_HIT"
                  /\ Last(Closed').pnl_usd = 0 ]_vars

\* C29: a cycle of the live trader opens a position only when the feed has
\* delivered a price for every required asset, and the entry price and the
\* group prices of the position are the delivered prices.
C29_NoEntryOnMissingData ==
    [][ (driver = "live" /\ Len(Opened') = Len(Opened) + 1) =>
            /\ SeqToSet(config.all_assets) \subseteq DOMAIN latest_prices'
            /\ Last(Opened').entry_price = latest_prices'[Last(Opened').asset].price
            /\ \A a \in DOMAIN Last(Opened').group_prices :
                  Last(Opened').group_prices[a] = latest_prices'[a].price ]_vars

\* C30: a settlement of the live trader (WINDOW_EXPIRY or SHUTDOWN) closes
\* the position at the last price delivered for its asset, or at 0.5 when no
\* price was ever delivered for it; the substitutes 1.0 (UP) and 0.0 (DOWN)
\* are never the exit price.
C30_SettlementPrice ==
    [][ ( /\ driver = "live" /\ Pos # None
          /\ Len(Closed') > Len(Closed)
          /\ Closed'[Len(Closed) + 1].exit_reason \in {Str("WINDOW_EXPIRY"), Str("SHUTDOWN")} ) =>
            /\ Closed'[Len(Closed) + 1].exit_price =
                  IF Pos.asset \in DOMAIN latest_prices'
                  THEN latest_prices'[Pos.asset].price
                  ELSE 50
            /\ Closed'[Len(Closed) + 1].exit_price \notin {0, 100} ]_vars

\* the live trader has settled, at a window change, a position on an asset
\* the feed has never delivered a price for, at 0.5
C30_Witness ==
    /\ driver = "live" /\ Len(Closed) >= 1
    /\ Last(Closed).exit_reason = Str("WINDOW_EXPIRY")
    /\ Last(Closed).asset \notin DOMAIN latest_prices
    /\ Last(Closed).exit_price = 50

(***************************************************************************)
(* The closing methods called directly, in any state the drivers reach     *)
(***************************************************************************)
\* exit prices and reasons of the direct calls
ClosePrices == {10, 90}
CloseReasons == {Str("WINDOW_EXPIRY")}

\* the times of the ticks between the direct calls: the first second of the
\* default entry window in the first and in the second window, and the second
\* after the entry window of the first window has closed
CloseTimes ==
    { w * DEFAULT_CONFIG.window_duration_minutes * 60 + o : w \in {0, 1}, o \in {600} }
    \cup { 811 }

\* EnhancedLiveTrader._exit_position(exit_time, exit_price, reason); signal
\* records the call and whether a position was open when it was made
CallExitPosition(exit_price, reason) ==
    /\ driver = "live" /\ pc = "running"
    /\ trader' = exit_position(trader, now, exit_price, reason)
    /\ signal' = [call |-> "_exit_position", had_position |-> Pos # None]
    /\ UNCHANGED <<config, driver, rtds_client, latest_prices, backtester, now, ticks, pc, snapshot>>

\* EnhancedLiveTrader._settle_position(reason)
CallSettlePosition(reason) ==
    /\ driver = "live" /\ pc = "running"
    /\ trader' = settle_position(trader, latest_prices, reason, now)
    /\ signal' = [call |-> "_settle_position", had_position |-> Pos # None]
    /\ UNCHANGED <<config, driver, rtds_client, latest_prices, backtester, now, ticks, pc, snapshot>>

\* EnhancedBacktester._close_position(exit_time, exit_price, reason)
CallClosePosition(exit_price, reason) ==
    /\ driver = "backtest" /\ pc = "running"
    /\ backtester' = close_position(backtester, now, exit_price, reason)
    /\ signal' = [call |-> "_close_position", had_position |-> Pos # None]
    /\ UNCHANGED <<config, driver, rtds_client, trader, latest_prices, now, ticks, pc, snapshot>>

\* EnhancedBacktester._settle_position(timestamp, prices, reason)
CallBtSettlePosition(reason) ==
    /\ driver = "backtest" /\ pc = "running"
    /\ backtester' = bt_settle_position(backtester, now, snapshot, reason)
    /\ signal' = [call |-> "_settle_position", had_position |-> Pos # None]
    /\ UNCHANGED <<config, driver, rtds_client, trader, latest_prices, now, ticks, pc, snapshot>>

CloseNext ==
    \/ LiveRun
    \/ \E t \in CloseTimes, round \in WallClockRounds : LiveTick(t, round)
    \/ LiveShutdown
    \/ BacktestNoData
    \/ \E t \in CloseTimes, prices \in CompleteRows : BacktestRow(t, prices)
    \/ \E t \in CloseTimes, prices \in CompleteRows : BacktestFinalRow(t, prices)
    \/ \E exit_price \in ClosePrices, reason \in CloseReasons : CallExitPosition(exit_price, reason)
    \/ \E reason \in CloseReasons : CallSettlePosition(reason)
    \/ \E exit_price \in ClosePrices, reason \in CloseReasons : CallClosePosition(exit_price, reason)
    \/ \E reason \in CloseReasons : CallBtSettlePosition(reason)

SpecClose == Init /\ [][CloseNext]_vars

\* C31: a closing method called while no position is open changes nothing
\* of the trader or the backtester (no trade, no counter, no total), and no
\* two closed trades are records of the same position.
C31_CloseWithoutPosition ==
    [][ /\ (signal' # signal /\ Pos = None) =>
                (trader' = trader /\ backtester' = backtester)
        /\ \A i \in DOMAIN Closed', j \in DOMAIN Closed' :
                i # j => EntryTimeOf(Closed'[i]) # EntryTimeOf(Closed'[j]) ]_vars

\* a closing method was called with no position open after two positions had
\* been opened and closed
C31_Witness ==
    /\ "call" \in DOMAIN signal
    /\ ~signal.had_position
    /\ Pos = None
    /\ Len(Closed) >= 2

\* C32: an exception raised inside a trading cycle is caught by run: the
\* trader is still running afterwards, and the step of the loop that follows
\* the sleep of the except clause is a further trading cycle, unless the stop
\* signal ends the loop.
C32_LoopSurvivesErrors ==
    [][ driver = "live" =>
            /\ pc' = "except" => (trader'.running /\ ticks' = ticks + 1)
            /\ pc = "except" =>
                  /\ trader.running
                  /\ pc' # "done" => ticks' = ticks + 1
                  /\ pc' = "done" => ~trader'.running ]_vars

\* a cycle after the one that raised in refresh_markets has opened a position
C32_Witness ==
    /\ driver = "live" /\ pc = "sleep"
    /\ signal = [exception |-> "refresh_markets"]
    /\ trader.running
    /\ Pos # None /\ Pos.entry_time = now
    /\ Len(Closed) >= 1

\* C33: is_entry_eligible called with min_remaining > max_remaining ends in an
\* error, not in a boolean result.
C33_PreconditionsFailFast ==
    ( /\ pc = "is_entry_eligible"
      /\ snapshot.min_remaining > snapshot.max_remaining )
        => "eligible" \notin DOMAIN signal

\* the price the exit evaluation of this step works on, for either driver
ExitPriceAt(p) ==
    IF driver = "backtest" THEN snapshot'[p.asset].value ELSE CurrentPrice(p)

\* C34: a tick inside the window of the open position at which neither the
\* stop-loss nor the target condition holds, or whose snapshot has no price
\* for the position's asset, leaves the position, the closed trades,
\* total_trades, total_pnl and trades_this_window unchanged.  (The final
\* settlement of the replay follows its last tick and is not part of it.)
C34_HoldingNoOp ==
    [][ ( /\ ticks' = ticks + 1 /\ pc' # "done"
          /\ Pos # None /\ Pos.window_id = WindowIdOf(now')
          /\ \/ Pos.asset \notin DOMAIN snapshot'
             \/ /\ ~TargetHolds(Pos, ExitPriceAt(Pos))
                /\ driver = "live" => ~StopLossHolds(Pos, ExitPriceAt(Pos)) ) =>
            /\ Pos' = Pos
            /\ Closed' = Closed
            /\ Counter' = Counter
            /\ trader'.total_trades = trader.total_trades
            /\ trader'.total_pnl = trader.total_pnl ]_vars

\* C34 witness: the live position was held on a later tick of its window whose
\* price for its asset moved from the entry price without reaching the stop
\* loss or the target.
C34_Witness ==
    /\ driver = "live" /\ pc = "running"
    /\ Pos # None /\ Pos.entry_time < now /\ Pos.window_id = WindowIdOf(now)
    /\ snapshot[Pos.asset].UP # Pos.entry_price

\* closed trade tr copies the identity of position p
CopiesPosition(tr, p) ==
    /\ tr.window_id = p.window_id
    /\ tr.asset = p.asset
    /\ tr.side = p.side
    /\ EntryTimeOf(tr) = p.entry_time
    /\ tr.entry_price = p.entry_price

\* C35: the number of positions opened is the number of closed trades, plus
\* one when a position is open; the k-th closed trade copies the window id,
\* asset, direction, entry time and entry price of the k-th position opened,
\* and the open position is the one opened last.
C35_ClosedExactlyOnce ==
    /\ Len(Opened) = Len(Closed) + (IF Pos # None THEN 1 ELSE 0)
    /\ \A k \in DOMAIN Closed : CopiesPosition(Closed[k], Opened[k])
    /\ Pos # None => Pos = Last(Opened)

\* C35 witness: a position was closed by the first tick of the next window,
\* the position that tick opened was closed at the end of the run, and none
\* is open.
C35_Witness ==
    /\ Len(Closed) = 2 /\ Pos = None /\ pc = "done"
    /\ Closed[1].window_id # Closed[2].window_id
    /\ ExitTimeOf(Closed[1]) = EntryTimeOf(Closed[2])

(***************************************************************************)
(* The runs to their end: the replay reaches its last timestamp, and the   *)
(* finally clause of main_live calls shutdown when the trading loop ends   *)
(***************************************************************************)
\* a timestamp of the data that is not the last one
ReplayRow(t, prices) ==
    /\ \E later \in CloseTimes : later > t
    /\ BacktestRow(t, prices)

EndNext ==
    \/ LiveRun
    \/ \E t \in CloseTimes, round \in WallClockRounds : LiveTick(t, round)
    \/ LiveShutdown
    \/ BacktestNoData
    \/ \E t \in CloseTimes, prices \in Rows : ReplayRow(t, prices)
    \/ \E t \in CloseTimes, prices \in Rows : BacktestFinalRow(t, prices)

\* the for loop over the timestamps is finite and run() has no await, so the
\* replay gets to its last timestamp; main_live awaits trader.shutdown() in
\* the finally clause around trader.run()
SpecEnd ==
    /\ Init /\ [][EndNext]_vars
    /\ WF_vars(LiveShutdown)
    /\ WF_vars(BacktestNoData)
    /\ WF_vars(\E t \in CloseTimes, prices \in Rows : BacktestFinalRow(t, prices))

\* C36: with the replay reaching its end and shutdown called after the live
\* loop, the k-th position opened is eventually the k-th closed trade, and a
\* position open at a processed tick of another window than its own is closed
\* by that tick.
C36_EventuallyClosed ==
    /\ \A k \in 1..MaxTicks : (Len(Opened) >= k) ~> (Len(Closed) >= k /\ Pos = None)
    /\ [][ ( /\ ProcessedTick
             /\ Pos # None
             /\ Pos.window_id # WindowIdOf(now') ) =>
                /\ Len(Closed') > Len(Closed)
                /\ CopiesPosition(Closed'[Len(Closed) + 1], Pos)
                /\ Pos' # Pos ]_vars

\* C36 witness: the replay ended with a position that its last timestamp
\* opened in the window after the one of the first trade.
C36_Witness ==
    /\ driver = "backtest" /\ pc = "done" /\ Pos = None
    /\ Len(Closed) = 2
    /\ Closed[2].exit_reason = Str("BACKTEST_END")
    /\ Closed[1].exit_reason = Str("WINDOW_EXPIRY")

\* C37: every closed trade of the replay has an exit time later than its entry
\* time: no position is opened and closed at the same timestamp.
C37_NoOpenAndCloseInOneTick ==
    driver = "backtest" =>
        \A k \in DOMAIN Closed : ExitTimeOf(Closed[k]) > EntryTimeOf(Closed[k])

\* C38: once disconnect() has been called on the stream client, its running
\* flag is false.
C38_StreamStopIsFinal ==
    (driver = "stream" /\ pc = "shutdown") => ~rtds_client.running

(***************************************************************************)
(* Config.update on a constructed Config                                   *)
(***************************************************************************)
\* dict.update: the keys of updates overwrite those of the stored dict
config_update(c, updates) ==
    [k \in DOMAIN c \cup DOMAIN updates |->
        IF k \in DOMAIN updates THEN updates[k] ELSE c[k]]

\* the updates handed to Config.update: zone bounds and entry windows that
\* pass _validate and that fail it
ConfigUpdates ==
    { [zone_high_min |-> 80], [zone_high_min |-> 100],
      [entry_window_min_remaining_seconds |-> 60],
      [entry_window_min_remaining_seconds |-> 400],
      [zone_low_max |-> 0, zone_high_min |-> 75] }

\* Config.update returns: self.config.update(updates), then _validate passes
ConfigUpdateReturns(updates) ==
    /\ driver = "config" /\ pc \in {"configured", "updated"}
    /\ Validate(config_update(config, updates))
    /\ config' = config_update(config, updates)
    /\ signal' = [updates |-> updates, before |-> config]
    /\ pc' = "updated"
    /\ UNCHANGED <<driver, rtds_client, trader, latest_prices, backtester, now, ticks, snapshot>>

\* Config.update raises: self.config.update(updates), then an assertion of
\* _validate fails
ConfigUpdateRaises(updates) ==
    /\ driver = "config" /\ pc \in {"configured", "updated"}
    /\ ~Validate(config_update(config, updates))
    /\ config' = config_update(config, updates)
    /\ signal' = [updates |-> updates, before |-> config]
    /\ pc' = "update AssertionError"
    /\ UNCHANGED <<driver, rtds_client, trader, latest_prices, backtester, now, ticks, snapshot>>

UpdateNext ==
    \/ ConfigConstructed
    \/ ConfigAssertionError
    \/ \E updates \in ConfigUpdates : ConfigUpdateReturns(updates)
    \/ \E updates \in ConfigUpdates : ConfigUpdateRaises(updates)

SpecUpdate == ConfigStartInit /\ [][UpdateNext]_vars

\* C39: after an update that raised, the stored configuration is the one from
\* before the call, and the stored configuration of every Config object
\* passes the validation.
C39_UpdateAllOrNothing ==
    /\ (driver = "config" /\ pc = "update AssertionError") => config = signal.before
    /\ (driver = "config" /\ pc \in {"configured", "updated", "update AssertionError"}) =>
            Validate(config)

(***************************************************************************)
(* The live trader on prices at the ends of the price range                *)
(***************************************************************************)
\* price_update messages of the websocket: float(data.get("price")) of any
\* value, the group at one price and the laggard at an end of [0, 1] or in
\* the middle
EdgeRounds ==
    { [a \in Assets |->
            PriceData(a, IF a = DEFAULT_CONFIG.tradeable_assets[2] THEN x ELSE g, "rtds")] :
        g \in {10, 90}, x \in {0, 50, 100} }

EdgeNext ==
    \/ LiveRun
    \/ \E t \in CloseTimes, round \in EdgeRounds : LiveTick(t, round)
    \/ LiveShutdown

SpecEdge == WallClockInit /\ [][EdgeNext]_vars

\* C40: the stop-loss level of every position opened lies strictly below the
\* entry price for UP and strictly above it for DOWN, and no trade closed
\* with STOP_LOSS has its exit price equal to its entry price.
C40_StopLossOnLosingSide ==
    driver = "live" =>
        /\ \A i \in DOMAIN trader.opened :
                IF trader.opened[i].side = "UP"
                THEN trader.opened[i].stop_loss_price < trader.opened[i].entry_price
                ELSE trader.opened[i].stop_loss_price > trader.opened[i].entry_price
        /\ \A k \in DOMAIN trader.trade_log :
                trader.trade_log[k].exit_reason = Str("STOP_LOSS") =>
                    trader.trade_log[k].exit_price # trader.trade_log[k].entry_price

====
